---- MODULE Spec2Model ----
(***************************************************************************)
(* A model of the real-time pipeline core of the conversation assistant:   *)
(*   - AudioBuffer (backend/app/core/audio/buffer.py): the ring buffer,    *)
(*     its lock, its readiness event and the stream_chunks generator;      *)
(*   - ConversationAnalyzer (backend/app/core/analysis/conversation.py):   *)
(*     the bounded turn history, speaker inference and context text;       *)
(*   - SuggestionGenerator (backend/app/core/analysis/suggestions.py): the *)
(*     language-model call and the parsing of its reply;                   *)
(*   - ConnectionManager (backend/app/api/websocket/manager.py): the       *)
(*     registry of websockets and the broadcast pass;                      *)
(*   - AudioService, TranscriptionService and AnalysisService              *)
(*     (backend/app/services): start, stop and reconfiguration of the      *)
(*     three capabilities and of their providers;                          *)
(*   - the websocket handlers (backend/app/api/websocket/handlers.py):     *)
(*     the connection loop, the commands and the pipeline loop.            *)
(*                                                                         *)
(* The program runs on one asyncio event loop.  A step of the model is the *)
(* run of one coroutine from one suspension point to the next: asyncio     *)
(* never interleaves anything inside such a run.                           *)
(*   - asyncio.Lock.acquire returns without suspending when the lock is    *)
(*     free and suspends the caller otherwise (modelled as the guard       *)
(*     ~lock: the step cannot be taken while the lock is held);            *)
(*   - asyncio.Event.wait returns without suspending when the flag is set; *)
(*     otherwise the caller waits on a future that Event.set resolves, and *)
(*     once resolved the caller resumes whatever the flag is by then.      *)
(* Samples are identified by the order in which they were written (the     *)
(* i-th sample ever written is the number i), so that order, loss and      *)
(* duplication of samples can be told apart.                               *)
(***************************************************************************)
EXTENDS Integers, Sequences, FiniteSets, TLC

\* ---------------------------------------------------------------- bounds
\* AudioBuffer.buffer_size and chunk_size, scaled down (16000 * 10.0 and
\* 16000 * 1.0 in the default configuration).
BufferSize == 5
ChunkSize == 2
\* Total number of samples the producer writes in one run of the model.
MaxWritten == 8
\* Number of clear() calls in one run of the model.
MaxClears == 1
\* The write-then-drain scenario: N <= MaxDrainN writes of S <= MaxDrainS samples.
MaxDrainS == 6
MaxDrainN == 5
\* ConversationAnalyzer.max_history, scaled down (20 by default).
MaxHistory == 2
\* Number of add_turn calls in one run of the model.
MaxTurns == 5
\* Number of turns the pipeline adds in one run of the suggestion generator.
MaxSgTurns == 2
\* Number of turns added through the analysis service in one run of the model.
MaxSvcTurns == 1
\* Number of llm_client.chat calls in one run of the model.
MaxChatCalls == 1
\* Number of lines of a text handed to the parser on its own.
MaxLines == 3
\* Number of lines of a reply of the language model in a run of
\* generate_suggestion.
MaxReplyLines == 2
\* Number of entries of the registry when operations are called in sequence.
MaxRegistry == 3
\* Number of provider instances constructed in one run of the services.
MaxInstances == 2
\* Number of restart tasks update_llm_config has created and that have not
\* run yet.
MaxRestarts == 1
\* Number of samples the capture session hands over in one run of the
\* services.
MaxCaptured == 2
MaxResults == 2
MaxMessages == 2
\* AudioBuffer.channels (default configuration: mono).
Channels == 1

\* Concurrent consumers of stream_chunks() obtained from the same buffer.
Streamers == {"s1", "s2"}
\* A caller of read_chunk() that is not a streamer.
Caller == "caller"

\* Sizes of the arrays handed to write(): empty, shorter than a chunk, one
\* chunk, a chunk and a bit, and more than the whole buffer holds.
WriteLens == {0, 1, ChunkSize, ChunkSize + 1, BufferSize + 1}

\* The websockets the server is handed, and the tasks that call broadcast().
Sockets == {"w1", "w2", "w3"}
Tasks == {"b1", "b2"}

VARIABLES
    buffer,          \* AudioBuffer.buffer: deque(maxlen = buffer_size), head first
    lock,            \* AudioBuffer.lock: TRUE while held
    new_data_event,  \* AudioBuffer.new_data_event: the flag of the asyncio.Event
    pc,              \* where each stream_chunks() generator is suspended
    ret,             \* the last operation on the buffer and what it returned
    written,         \* number of samples written so far (the last sample's number)
    yielded,         \* the samples stream_chunks() has yielded, in yield order
    dropped,         \* the samples evicted by overflow or removed by clear()
    nclears,         \* number of clear() calls so far
    scen,            \* the write-then-drain scenario: its phase, the size S and
                     \* the number N of its writes, the chunks read so far
    conversation_history,  \* ConversationAnalyzer.conversation_history
    current_speaker,       \* ConversationAnalyzer.current_speaker
    clock,           \* datetime.now(): the number of turns created so far
    calls,           \* the add_turn calls since the last clear(): what each
                     \* returned and whether it was given a speaker
    context,         \* the last get_context_text(n) call and what it returned
    gs,              \* the generate_suggestion call: where it is, the context it
                     \* read, the number of chat calls made before it
    chat_calls,      \* number of llm_client.chat calls so far
    response,        \* what the chat call of the last generate_suggestion did
    suggestion,      \* what the last generate_suggestion call gave back
    parse_in,        \* the text handed to the parser on its own
    parse_out,       \* which parsing operation was applied to it, and its result
    active_connections,  \* ConnectionManager.active_connections
    broken,          \* the websockets whose peer has gone away
    handler,         \* where the connection handler of each websocket is
    btask,           \* the broadcast pass of each task: its event, the index of
                     \* its list iterator, its target, its disconnected list,
                     \* the registry it started from, the targets it attempted
    received,        \* the events delivered to each websocket, in order
    nbroadcast,      \* number of broadcast calls so far (the last event's number)
    mret,            \* the last operation on the manager
    is_running,      \* is_running of each service
    client,          \* AudioService.capture, TranscriptionService.stt_client and
                     \* AnalysisService.llm_client: an instance, or 0 for None
    suggestion_generator,  \* AnalysisService.suggestion_generator: the client
                     \* its orchestrator holds, or 0 for None
    instances,       \* the provider instances constructed so far
    config,          \* the provider name each service holds
    asked,           \* the provider name last set for each service
    pending_restart, \* number of _restart() tasks created and not yet run
    call,            \* the start() or stop() call of each caller
    sret,            \* the last step of a service operation
    pipe,            \* stream_transcription_results: its position and locals
    stream,          \* the results the transcription provider has ready
    events,          \* the type of each event the pipeline has broadcast
    hpos,            \* each connection handler's position in its loop
    inbox            \* the personal messages each websocket has received

bufVars == <<buffer, lock, new_data_event, pc, ret, written, yielded, dropped, nclears>>

trkVars == <<conversation_history, current_speaker, clock, calls, context>>

sgVars == <<gs, chat_calls, response, suggestion, parse_in, parse_out>>

mgrVars == <<active_connections, broken, handler, btask, received, nbroadcast, mret>>

svcVars == <<is_running, client, suggestion_generator, instances, config, asked,
             pending_restart, call, sret>>

hdlVars == <<pipe, stream, events, hpos, inbox>>

vars == <<buffer, lock, new_data_event, pc, ret, written, yielded, dropped, nclears,
          scen, conversation_history, current_speaker, clock, calls, context,
          gs, chat_calls, response, suggestion, parse_in, parse_out,
          active_connections, broken, handler, btask, received, nbroadcast, mret,
          is_running, client, suggestion_generator, instances, config, asked,
          pending_restart, call, sret,
          pipe, stream, events, hpos, inbox>>

Range(s) == {s[i] : i \in 1..Len(s)}

Max(a, b) == IF a >= b THEN a ELSE b

Min(a, b) == IF a <= b THEN a ELSE b

\* ------------------------------------------------------------ AudioBuffer

\* Faulty variants of deque_append: a deque without maxlen, and a full buffer
\* that rejects the new sample instead of evicting the oldest.
deque_append_unbounded(q, x) == Append(q, x)

deque_append_reject_new(q, x) == IF Len(q) >= BufferSize THEN q ELSE Append(q, x)

\* Faulty variant of deque_append: a full buffer overwrites its newest sample.
deque_append_overwrite_tail(q, x) ==
    IF Len(q) >= BufferSize THEN Append(SubSeq(q, 1, Len(q) - 1), x) ELSE Append(q, x)

\* deque(maxlen = buffer_size).append(x): a full deque discards its leftmost
\* item to make room (a deque of maxlen 0 discards x).
deque_append(q, x) ==
    IF BufferSize = 0 THEN q
    ELSE IF Len(q) >= BufferSize THEN Append(Tail(q), x)
    ELSE Append(q, x)

\* for sample in data.flatten(): self.buffer.append(sample)
RECURSIVE append_samples(_, _)
append_samples(q, data) ==
    IF data = <<>> THEN q
    ELSE append_samples(deque_append(q, Head(data)), Tail(data))

\* Faulty variant of popleft_n: the items are read from the head of the deque
\* but left in it.
popleft_n_peek(q, n) == <<SubSeq(q, 1, n), q>>

\* [self.buffer.popleft() for _ in range(n)]: <<the items popped, what is left>>
RECURSIVE popleft_n(_, _)
popleft_n(q, n) ==
    IF n = 0 THEN <<(<<>>), q>>
    ELSE LET r == popleft_n(Tail(q), n - 1)
         IN  <<(<<Head(q)>>) \o r[1], r[2]>>

\* chunk.reshape(-1, self.channels) raises unless the chunk divides into frames.
reshape_ok == ChunkSize % Channels = 0

\* Faulty variant of release: the lock stays held after the critical section
\* (the coroutine suspends, or returns, without releasing it).
release_held == TRUE

\* The lock as `async with self.lock` leaves it, normally or by an exception.
release == FALSE

\* Faulty variant of event_set: the flag is raised but the coroutines already
\* suspended in Event.wait() are not resumed.
event_set_flag_only(p) == p

\* asyncio.Event.set(): unless the flag (new_data_event) is already raised, it
\* raises it and resolves the future of every coroutine suspended in
\* Event.wait().
event_set(p) ==
    IF new_data_event THEN p
    ELSE [s \in Streamers |-> IF p[s] = "waiting" THEN "woken" ELSE p[s]]

\* The array of the next k samples the producer hands to write().
NewData(k) == [i \in 1..k |-> written + i]

NoChunk == <<>>

Ret(op, who, none, raised, chunk) ==
    [op |-> op, who |-> who, none |-> none, raised |-> raised, chunk |-> chunk]

\* AudioBuffer.__init__
InitBuffer ==
    /\ buffer = <<>>
    /\ lock = FALSE
    /\ new_data_event = FALSE
    /\ pc = [s \in Streamers |-> "init"]
    /\ ret = Ret("init", Caller, TRUE, FALSE, NoChunk)
    /\ written = 0
    /\ yielded = <<>>
    /\ dropped = {}
    /\ nclears = 0

\* Faulty variant of write: the samples are stored and the readiness signal
\* is left as it was.
write_unsignalled(data) ==
    /\ ~lock
    /\ buffer' = append_samples(buffer, data)
    /\ lock' = release
    /\ ret' = Ret("write", Caller, TRUE, FALSE, NoChunk)
    /\ written' = written + Len(data)
    /\ dropped' = dropped \cup (Range(buffer \o data) \ Range(buffer'))
    /\ UNCHANGED <<new_data_event, pc>>

\* AudioBuffer.write(data), the body of the task AudioService._on_audio_data
\* creates.  It has no suspension point once the lock is free, and asyncio
\* runs the tasks in creation order, so one step is one whole write.
write(data) ==
    /\ ~lock
    /\ buffer' = append_samples(buffer, data)
    /\ new_data_event' = TRUE
    /\ pc' = event_set(pc)
    /\ lock' = release
    /\ ret' = Ret("write", Caller, TRUE, FALSE, NoChunk)
    /\ written' = written + Len(data)
    /\ dropped' = dropped \cup (Range(buffer \o data) \ Range(buffer'))

\* Faulty variant of read_chunk_result: a short buffer is handed out as a
\* (short) chunk instead of being reported not ready.
read_chunk_result_short(q) ==
    IF Len(q) < ChunkSize /\ q # <<>>
    THEN [none |-> FALSE, raised |-> FALSE, chunk |-> q, rest |-> <<>>]
    ELSE IF Len(q) < ChunkSize
    THEN [none |-> TRUE, raised |-> FALSE, chunk |-> NoChunk, rest |-> q]
    ELSE LET r == popleft_n(q, ChunkSize)
         IN  [none |-> FALSE, raised |-> FALSE, chunk |-> r[1], rest |-> r[2]]

\* AudioBuffer.read_chunk(): what it returns and the buffer it leaves.
read_chunk_result(q) ==
    IF Len(q) < ChunkSize
    THEN [none |-> TRUE, raised |-> FALSE, chunk |-> NoChunk, rest |-> q]
    ELSE LET r == popleft_n(q, ChunkSize)
         IN  IF reshape_ok
             THEN [none |-> FALSE, raised |-> FALSE, chunk |-> r[1], rest |-> r[2]]
             ELSE [none |-> FALSE, raised |-> TRUE, chunk |-> NoChunk, rest |-> r[2]]

\* AudioBuffer.read_chunk() called by `who`.
read_chunk(who) ==
    /\ ~lock
    /\ LET r == read_chunk_result(buffer)
       IN  /\ buffer' = r.rest
           /\ ret' = Ret("read", who, r.none, r.raised, r.chunk)
    /\ lock' = release

\* AudioBuffer.clear()
clear ==
    /\ ~lock
    /\ buffer' = <<>>
    /\ lock' = release
    /\ ret' = Ret("clear", Caller, TRUE, FALSE, NoChunk)
    /\ dropped' = dropped \cup Range(buffer)
    /\ nclears' = nclears + 1

\* AudioBuffer.get_buffer_level(): the ratio as <<numerator, denominator>>.
get_buffer_level == <<Len(buffer), BufferSize>>

\* One run of the stream_chunks() generator s, up to its next suspension:
\* at Event.wait() (waiting), or at `yield chunk` (yielded) until the
\* consumer asks for the next chunk.
stream_chunks(s) ==
    \/ /\ pc[s] = "init"
       /\ ~new_data_event
       /\ pc' = [pc EXCEPT ![s] = "waiting"]
       /\ ret' = Ret("wait", s, TRUE, FALSE, NoChunk)
       /\ UNCHANGED <<buffer, lock, new_data_event, written, yielded, dropped, nclears>>
    \/ /\ \/ pc[s] = "init" /\ new_data_event
          \/ pc[s] \in {"woken", "yielded"}
       /\ read_chunk(s)
       /\ IF ret'.raised
          THEN /\ pc' = [pc EXCEPT ![s] = "raised"]
               /\ UNCHANGED <<new_data_event, yielded>>
          ELSE IF ret'.none
          THEN /\ new_data_event' = FALSE
               /\ pc' = [pc EXCEPT ![s] = "waiting"]
               /\ UNCHANGED yielded
          ELSE /\ yielded' = yielded \o ret'.chunk
               /\ pc' = [pc EXCEPT ![s] = "yielded"]
               /\ UNCHANGED new_data_event
       /\ UNCHANGED <<written, dropped, nclears>>

\* --------------------------------------------------- ConversationAnalyzer

\* speaker = None
NoSpeaker == "none"

Speakers == {"user", "other"}

\* Texts of turns, as sequences of characters: the empty text and a short one.
Texts == {<<>>, <<"h", "i">>}

\* The labels of get_context_text, U+6211 for the user and U+5BF9 U+65B9 for
\* the other party, written here in pinyin, one entry per character.
LabelUser == <<"wo">>

LabelOther == <<"dui", "fang">>

\* Faulty variant of identify_speaker: it looks at the oldest turn of the
\* history instead of the latest.
identify_speaker_oldest(history) ==
    IF history = <<>> THEN "other"
    ELSE IF history[1].speaker = "other" THEN "user" ELSE "other"

\* ConversationAnalyzer._identify_speaker
identify_speaker(history) ==
    IF history = <<>> THEN "other"
    ELSE IF history[Len(history)].speaker = "other" THEN "user" ELSE "other"

\* Faulty variant of limit_history: the turn just added is dropped instead of
\* the oldest one (pop() for pop(0)).
limit_history_pop_last(history) ==
    IF Len(history) > MaxHistory THEN SubSeq(history, 1, Len(history) - 1) ELSE history

\* if len(self.conversation_history) > self.max_history: ...pop(0)
limit_history(history) ==
    IF Len(history) > MaxHistory THEN Tail(history) ELSE history

\* ConversationAnalyzer.add_turn(text, speaker)
add_turn(text, speaker) ==
    LET spk == IF speaker = NoSpeaker
               THEN identify_speaker(conversation_history)
               ELSE speaker
        turn == [speaker |-> spk, text |-> text, timestamp |-> clock + 1]
    IN  /\ conversation_history' = limit_history(Append(conversation_history, turn))
        /\ current_speaker' = spk
        /\ clock' = clock + 1
        /\ calls' = Append(calls, [turn |-> turn, given |-> speaker # NoSpeaker])

\* Faulty variant of clear_history: the history is emptied and the current
\* speaker is kept.
clear_history_keeps_speaker ==
    /\ conversation_history' = <<>>
    /\ calls' = <<>>
    /\ UNCHANGED <<current_speaker, clock>>

\* ConversationAnalyzer.clear()
clear_history ==
    /\ conversation_history' = <<>>
    /\ current_speaker' = NoSpeaker
    /\ calls' = <<>>
    /\ UNCHANGED clock

\* s[start:] as Python evaluates it: a negative start counts from the end,
\* and the bounds are clamped to the sequence.
py_slice_from(s, start) ==
    LET i == IF start < 0 THEN Max(Len(s) + start, 0) ELSE Min(start, Len(s))
    IN  SubSeq(s, i + 1, Len(s))

\* ConversationAnalyzer.get_recent_history(n): self.conversation_history[-n:]
get_recent_history(n) == py_slice_from(conversation_history, 0 - n)

\* f"{speaker_label}: {turn.text}"
context_line(turn) ==
    (IF turn.speaker = "user" THEN LabelUser ELSE LabelOther) \o <<":", " ">> \o turn.text

\* "\n".join(lines)
RECURSIVE join_lines(_)
join_lines(lines) ==
    IF lines = <<>> THEN <<>>
    ELSE IF Len(lines) = 1 THEN lines[1]
    ELSE lines[1] \o <<"\n">> \o join_lines(Tail(lines))

\* ConversationAnalyzer.get_context_text(n)
get_context_text(n) ==
    LET recent == get_recent_history(n)
    IN  join_lines([i \in 1..Len(recent) |-> context_line(recent[i])])

\* No get_context_text call is the latest operation on the tracker.
NoContext == [called |-> FALSE, n |-> 0, text |-> <<>>]

\* ------------------------------------- suggestion generator: the operators
\* (backend/app/core/analysis/suggestions.py)
\*
\* A text is a sequence of tokens.  A token is a piece of text that contains
\* no line break and no brace unless it is the line break "\n" or a brace
\* itself; " " is a run of whitespace.  The Chinese keywords are written in
\* pinyin: "yitu" is U+610F U+56FE, "sikao" U+601D U+8003, "xuqiu" U+9700
\* U+6C42, "jianyi" U+5EFA U+8BAE and "huifu" U+56DE U+590D.

\* The keys of a suggestion, in the order the code lists them.
Fields == <<"intent", "thoughts", "real_need", "suggested_reply">>

\* A JSON object member with its separators: "intent": "a" and so on.
PairIntent == "'intent': 'a'"
PairIntentNumber == "'intent': 1"
PairReply == "'suggested_reply': 'b'"
PairReplyNumber == "'suggested_reply': 2"

PairTokens == {PairIntent, PairIntentNumber, PairReply, PairReplyNumber}

\* A value of a decoded object or of a suggestion: a string (its text) or
\* something that is not a string (a JSON number).
Str(text) == [str |-> TRUE, text |-> text]

NotStr(text) == [str |-> FALSE, text |-> text]

\* The key and the value of a member.
pair_key(tok) ==
    IF tok \in {PairReply, PairReplyNumber} THEN "suggested_reply" ELSE "intent"

pair_value(tok) ==
    CASE tok = PairIntent -> Str(<<"a">>)
      [] tok = PairIntentNumber -> NotStr(<<"1">>)
      [] tok = PairReplyNumber -> NotStr(<<"2">>)
      [] OTHER -> Str(<<"b">>)

\* str.lower() of a token.
lower(tok) == IF tok = "Intent:" THEN "intent:" ELSE tok

\* kw in tok: the keywords a token contains as a substring.
substrings(tok) ==
    CASE tok = "intent:" -> {"intent"}
      [] tok = PairIntent -> {"intent"}
      [] tok = PairIntentNumber -> {"intent"}
      [] tok = "sikao" -> {"sikao"}
      [] tok = "xuqiu" -> {"xuqiu"}
      [] tok = "needed" -> {"need"}
      [] tok = "jianyi" -> {"jianyi"}
      [] tok = "huifu" -> {"huifu"}
      [] tok = PairReply -> {"reply"}
      [] tok = PairReplyNumber -> {"reply"}
      [] OTHER -> {}

\* kw in line
in_line(kw, line) == \E i \in 1..Len(line) : kw \in substrings(line[i])

\* line.lower()
line_lower(line) == [i \in 1..Len(line) |-> lower(line[i])]

\* content.split("\n"): the lines of a text, one at least.
RECURSIVE split_lines(_)
split_lines(content) ==
    IF \A i \in 1..Len(content) : content[i] # "\n"
    THEN <<content>>
    ELSE LET i == CHOOSE j \in 1..Len(content) :
                      content[j] = "\n" /\ \A k \in 1..(j - 1) : content[k] # "\n"
         IN  <<SubSeq(content, 1, i - 1)>> \o split_lines(SubSeq(content, i + 1, Len(content)))

\* line.strip()
RECURSIVE strip(_)
strip(line) ==
    IF line = <<>> THEN <<>>
    ELSE IF Head(line) = " " THEN strip(Tail(line))
    ELSE IF line[Len(line)] = " " THEN strip(SubSeq(line, 1, Len(line) - 1))
    ELSE line

\* The field a line is a marker of, "none" when it carries no marker: the
\* conditions of the if/elif chain of _extract_from_text, in its order.
line_key(line) ==
    LET low == line_lower(line)
    IN  IF in_line("yitu", line) \/ in_line("intent", low) THEN "intent"
        ELSE IF in_line("sikao", line) \/ in_line("thought", low) THEN "thoughts"
        ELSE IF in_line("xuqiu", line) \/ in_line("need", low) THEN "real_need"
        ELSE IF in_line("jianyi", line) \/ in_line("reply", low) \/ in_line("huifu", line)
        THEN "suggested_reply"
        ELSE "none"

\* The dictionary _extract_from_text starts from.
blank_result == [f \in Range(Fields) |-> Str(<<>>)]

\* One pass of the loop of _extract_from_text over the lines that are left.
RECURSIVE scan_lines_keep_marker_text(_, _, _)
scan_lines_keep_marker_text(lines, result, current_key) ==
    IF lines = <<>> THEN result
    ELSE LET line == strip(Head(lines))
             key == line_key(line)
         IN  IF key # "none"
             THEN scan_lines_keep_marker_text(Tail(lines),
                      [result EXCEPT ![key] = Str(@.text \o line \o <<" ">>)], key)
             ELSE IF current_key # "none" /\ line # <<>>
             THEN scan_lines_keep_marker_text(Tail(lines),
                      [result EXCEPT ![current_key] = Str(@.text \o line \o <<" ">>)],
                      current_key)
             ELSE scan_lines_keep_marker_text(Tail(lines), result, current_key)

RECURSIVE scan_lines(_, _, _)
scan_lines(lines, result, current_key) ==
    IF lines = <<>> THEN result
    ELSE LET line == strip(Head(lines))
             key == line_key(line)
         IN  IF key # "none"
             THEN scan_lines(Tail(lines), result, key)
             ELSE IF current_key # "none" /\ line # <<>>
             THEN scan_lines(Tail(lines),
                      [result EXCEPT ![current_key] = Str(@.text \o line \o <<" ">>)],
                      current_key)
             ELSE scan_lines(Tail(lines), result, current_key)

\* SuggestionGenerator._extract_from_text
extract_from_text(content) == scan_lines(split_lines(content), blank_result, "none")

\* SuggestionGenerator._empty_suggestion: the fixed suggestion.  "wufa fenxi"
\* is U+65E0 U+6CD5 U+5206 U+6790, and so on.
empty_suggestion ==
    [intent |-> Str(<<"wufa fenxi">>),
     thoughts |-> Str(<<"duihua shangxiawen buzu">>),
     real_need |-> Str(<<"xuyao gengduo xinxi">>),
     suggested_reply |-> Str(<<"qing jixu duihua yi huoqu gengduo xinxi">>)]

\* Where a match of \{[^{}]*(?:\{[^{}]*\}[^{}]*)*\} that has got to position j
\* ends (0: it fails): outside (depth 1) or inside (depth 2) an inner pair
\* of braces.
RECURSIVE match_end(_, _, _)
match_end(content, j, depth) ==
    IF j > Len(content) THEN 0
    ELSE IF content[j] = "{"
         THEN (IF depth = 1 THEN match_end(content, j + 1, 2) ELSE 0)
    ELSE IF content[j] = "}"
         THEN (IF depth = 1 THEN j ELSE match_end(content, j + 1, 1))
    ELSE match_end(content, j + 1, depth)

\* The outcome of a search that finds nothing.
NoMatch == [found |-> FALSE, span |-> <<>>]

\* re.search(r'\{[^{}]*(?:\{[^{}]*\}[^{}]*)*\}', content, re.DOTALL): the
\* leftmost match.
re_search(content) ==
    LET starts == {i \in 1..Len(content) :
                      content[i] = "{" /\ match_end(content, i + 1, 1) > 0}
    IN  IF starts = {} THEN NoMatch
        ELSE LET i == CHOOSE k \in starts : \A m \in starts : k <= m
             IN  [found |-> TRUE, span |-> SubSeq(content, i, match_end(content, i + 1, 1))]

\* What an operation that can raise gives back.
Ok(value) == [raised |-> FALSE, value |-> value]

\* The dictionary with no key.
EmptyDict == [k \in {} |-> Str(<<>>)]

Raised == [raised |-> TRUE, value |-> EmptyDict]

\* The dictionary of the members, a later member replacing an earlier one of
\* the same key.
RECURSIVE dict_of(_, _)
dict_of(members, d) ==
    IF members = <<>> THEN d
    ELSE LET k == pair_key(Head(members))
         IN  dict_of(Tail(members),
                     [x \in DOMAIN d \cup {k} |->
                         IF x = k THEN pair_value(Head(members)) ELSE d[x]])

\* json.loads(json_str) of a matched span: the span decodes when there is
\* nothing but members and whitespace between its outer braces.
json_loads(span) ==
    LET inner == SubSeq(span, 2, Len(span) - 1)
        members == SelectSeq(inner, LAMBDA tok : tok \notin {" ", "\n"})
    IN  IF \A i \in 1..Len(members) : members[i] \in PairTokens
        THEN Ok(dict_of(members, EmptyDict))
        ELSE Raised

\* data.get(key, default)
dict_get(d, key, default) == IF key \in DOMAIN d THEN d[key] ELSE default

\* SuggestionGenerator._parse_response
parse_response(content) ==
    LET json_match == re_search(content)
    IN  IF json_match.found
        THEN LET data == json_loads(json_match.span)
             IN  IF data.raised
                 THEN empty_suggestion
                 ELSE [f \in Range(Fields) |-> dict_get(data.value, f, Str(<<>>))]
        ELSE extract_from_text(content)

\* if not context
not_context_never(text) == FALSE

not_context(text) == text = <<>>

\* No chat call has been made by the generate_suggestion call in progress.
NoResponse == [called |-> FALSE, raised |-> FALSE, content |-> <<>>]

\* What llm_client.chat did: it returned a response of that content, or raised.
Returned(content) == [called |-> TRUE, raised |-> FALSE, content |-> content]

ChatRaised == [called |-> TRUE, raised |-> TRUE, content |-> <<>>]

\* generate_suggestion from the return of llm_client.chat to the end of its
\* try block: _parse_response, then suggestion['intent'][:50] for the log
\* line, which raises when the key is missing or its value cannot be sliced.
try_block(resp) ==
    IF resp.raised THEN Raised
    ELSE LET s == parse_response(resp.content)
         IN  IF "intent" \notin DOMAIN s \/ ~s["intent"].str THEN Raised ELSE Ok(s)

\* generate_suggestion from the return of llm_client.chat to its own return:
\* the try block and the except Exception clause.
generate_result_propagate(resp) == try_block(resp)

generate_result(resp) ==
    LET o == try_block(resp)
    IN  IF o.raised THEN Ok(empty_suggestion) ELSE o

\* No parsing operation has been applied to the text.
NotParsed == [op |-> "none", result |-> EmptyDict]

\* The generate_suggestion call has not returned yet.
NoOutcome == Ok(EmptyDict)

\* SuggestionGenerator.generate_suggestion(conversation_analyzer, n) up to
\* its first suspension: it returns at once when the context is empty and
\* awaits llm_client.chat(messages) otherwise.
generate_suggestion(n) ==
    LET ctx == get_context_text(n)
    IN  /\ gs.pc # "chat"
        /\ context' = [called |-> TRUE, n |-> n, text |-> ctx]
        /\ IF not_context(ctx)
           THEN /\ gs' = [pc |-> "done", context |-> ctx, chat_at_call |-> chat_calls]
                /\ response' = NoResponse
                /\ suggestion' = Ok(empty_suggestion)
                /\ UNCHANGED <<chat_calls, parse_in, parse_out>>
           ELSE /\ chat_calls < MaxChatCalls
                /\ gs' = [pc |-> "chat", context |-> ctx, chat_at_call |-> chat_calls]
                /\ chat_calls' = chat_calls + 1
                /\ response' = NoResponse
                /\ suggestion' = NoOutcome
                /\ UNCHANGED <<parse_in, parse_out>>

\* generate_suggestion resumed by what llm_client.chat did.
chat_done(resp) ==
    /\ gs.pc = "chat"
    /\ response' = resp
    /\ suggestion' = generate_result(resp)
    /\ gs' = [gs EXCEPT !.pc = "done"]
    /\ UNCHANGED <<chat_calls, parse_in, parse_out>>

\* SuggestionGenerator.__init__ and the stub that counts the chat calls.
InitSuggest ==
    /\ gs = [pc |-> "idle", context |-> <<>>, chat_at_call |-> 0]
    /\ chat_calls = 0
    /\ response = NoResponse
    /\ suggestion = NoOutcome
    /\ parse_in = <<>>
    /\ parse_out = NotParsed

\* -------------------------------------- connection manager: the operators
\* (backend/app/api/websocket/manager.py)
\*
\* An observer is a websocket handle.  websocket.accept() and
\* websocket.send_json() are calls into the transport: each suspends its
\* caller and, when it completes, has either taken effect or raised.  The
\* events are numbered in the order of the broadcast calls.

\* No websocket: the target of a pass that is not in a delivery attempt.
NoSocket == "none"

\* list.remove(x): the list without the first item equal to x.
RECURSIVE list_remove(_, _)
list_remove(list, x) ==
    IF list = <<>> THEN <<>>
    ELSE IF Head(list) = x THEN Tail(list)
    ELSE <<Head(list)>> \o list_remove(Tail(list), x)

\* ConnectionManager.disconnect(websocket), on the list
disconnect_or_drop_last(connections, websocket) ==
    IF websocket \in Range(connections)
    THEN list_remove(connections, websocket)
    ELSE SubSeq(connections, 1, Len(connections) - 1)

\* Faulty variant of disconnect: the list is left as it is.
disconnect_keeps(connections, websocket) == connections

disconnect(connections, websocket) ==
    IF websocket \in Range(connections)
    THEN list_remove(connections, websocket)
    ELSE connections

\* for connection in disconnected: self.disconnect(connection)
prune_nothing(connections, disconnected) == connections

RECURSIVE prune(_, _)
prune(connections, disconnected) ==
    IF disconnected = <<>> THEN connections
    ELSE prune(disconnect(connections, Head(disconnected)), Tail(disconnected))

\* A broadcast task that has not called broadcast() yet.
IdleTask ==
    [pc |-> "idle", event |-> 0, idx |-> 0, target |-> NoSocket,
     disconnected |-> <<>>, at_start |-> <<>>, attempts |-> <<>>]

\* broadcast(message) entered: disconnected = [] and a fresh iterator over
\* the registry.  at_start is the registry as the call found it.
pass_begin(event, connections) ==
    [pc |-> "iter", event |-> event, idx |-> 0, target |-> NoSocket,
     disconnected |-> <<>>, at_start |-> connections, attempts |-> <<>>]

\* The except clause of the loop of broadcast: the connection is noted.
delivery_failed_abort(task) ==
    [task EXCEPT !.disconnected = Append(@, task.target),
                 !.idx = @ + Len(task.at_start)]

delivery_failed(task) == [task EXCEPT !.disconnected = Append(@, task.target)]

\* for connection in self.active_connections: the list iterator hands out
\* the item at its index in the list as it is now and moves on, or ends the
\* loop; a delivery attempt to the item starts (await connection.send_json).
loop_next(task, connections) ==
    IF task.idx < Len(connections)
    THEN [task EXCEPT !.pc = "send",
                      !.target = connections[task.idx + 1],
                      !.idx = @ + 1,
                      !.attempts = Append(@, connections[task.idx + 1])]
    ELSE [task EXCEPT !.pc = "done", !.target = NoSocket]

\* The registry once the loop has moved on: pruned when the loop is over.
after_loop(task, connections) ==
    IF task.pc = "done" THEN prune(connections, task.disconnected) ELSE connections

\* The last operation on the manager: the websocket it was called with and
\* whether accept() or send_json() raised in it.
Mret(op, who, failed) == [op |-> op, who |-> who, failed |-> failed]

\* ConnectionManager.__init__
InitManager ==
    /\ active_connections = <<>>
    /\ broken = {}
    /\ handler = [w \in Sockets |-> "new"]
    /\ btask = [t \in Tasks |-> IdleTask]
    /\ received = [w \in Sockets |-> <<>>]
    /\ nbroadcast = 0
    /\ mret = Mret("init", NoSocket, FALSE)

\* ConnectionManager.connect(websocket): accept() raises when the peer is
\* gone, and then nothing is appended.
connect(websocket) ==
    /\ active_connections' =
          IF websocket \in broken THEN active_connections
          ELSE Append(active_connections, websocket)
    /\ mret' = Mret("connect", websocket, websocket \in broken)
    /\ UNCHANGED <<broken, btask, received, nbroadcast>>

\* ConnectionManager.disconnect(websocket)
unregister(websocket) ==
    /\ active_connections' = disconnect(active_connections, websocket)
    /\ mret' = Mret("disconnect", websocket, FALSE)
    /\ UNCHANGED <<broken, btask, received, nbroadcast>>

\* ConnectionManager.send_personal_message(message, websocket): one delivery
\* attempt; a failure is logged.
send_personal_message(websocket) ==
    /\ mret' = Mret("send_personal_message", websocket, websocket \in broken)
    /\ UNCHANGED <<active_connections, broken, btask, received, nbroadcast>>

\* ConnectionManager.broadcast(message) called by task t (a task calls it
\* once), up to its first
\* suspension (the first delivery attempt) or, with an empty registry, to its
\* return.
broadcast(t) ==
    LET task == loop_next(pass_begin(nbroadcast + 1, active_connections),
                          active_connections)
    IN  /\ btask[t].pc = "idle"
        /\ nbroadcast' = nbroadcast + 1
        /\ btask' = [btask EXCEPT ![t] = task]
        /\ active_connections' = after_loop(task, active_connections)
        /\ mret' = Mret("broadcast", NoSocket, FALSE)
        /\ UNCHANGED <<broken, received>>

\* broadcast resumed by the completion of its delivery attempt: the event
\* has reached the target or send_json has raised; then the loop moves on.
send_json_done(t) ==
    LET failed == btask[t].target \in broken
        task == loop_next(IF failed THEN delivery_failed(btask[t]) ELSE btask[t],
                          active_connections)
    IN  /\ btask[t].pc = "send"
        /\ received' = IF failed THEN received
                       ELSE [received EXCEPT ![btask[t].target] = Append(@, btask[t].event)]
        /\ btask' = [btask EXCEPT ![t] = task]
        /\ active_connections' = after_loop(task, active_connections)
        /\ mret' = Mret("broadcast", NoSocket, FALSE)
        /\ UNCHANGED <<broken, nbroadcast>>

\* ConnectionManager.get_connection_count()
get_connection_count == Len(active_connections)

\* The task that called broadcast() ends after the call has returned: the
\* iterator and the disconnected list of the pass are gone.
task_end(t) ==
    /\ btask[t].pc = "done"
    /\ btask' = [btask EXCEPT ![t] = [IdleTask EXCEPT !.pc = "ended"]]
    /\ mret' = Mret("end", NoSocket, FALSE)
    /\ UNCHANGED <<active_connections, broken, received, nbroadcast>>

\* ------------------------------------------------ services: the operators
\* (backend/app/services/audio_service.py, transcription_service.py and
\* analysis_service.py)
\*
\* A capability is one of the three services.  Each holds a running flag
\* and a provider: the AudioCapture of the audio service, the stt_client of
\* the transcription service, the llm_client of the analysis service (whose
\* SuggestionGenerator holds the same client).  A provider instance is
\* identified by the order in which it was constructed: instances[i] is
\* the i-th instance ever made, and 0 stands for None.
\*
\* start() and stop() are coroutines.  They suspend only where the provider
\* does: ElevenLabsSTT.connect awaits websockets.connect and
\* ElevenLabsSTT.disconnect awaits websocket.close(); QwenAudioSTT.connect
\* and disconnect, AudioCapture.start and stop, and the whole of
\* AnalysisService.start and stop contain no await that suspends, so each
\* runs in one step.
Capabilities == {"audio", "transcription", "analysis"}

\* The callers of start() and stop(): the websocket command handlers, the
\* routes and the lifespan hook.
Callers == {"k1", "k2"}

\* The task AnalysisService.update_llm_config creates to run _restart().
RestartTask == "restart"

\* Python's None, as the value of a provider attribute and as an argument.
NoInstance == 0
NoName == "None"

\* The class of the only provider the audio service constructs.
CaptureKind == "capture"

\* STTFactory.get_supported_providers() and the providers of LLMFactory the
\* model draws from (openai and ollama of its six).
SttProviders == {"elevenlabs", "qwen"}
LlmProviders == {"openai", "ollama"}

\* The provider names a configuration may hold: supported names, a
\* supported name in another case, and a name no factory knows.
SttNames == {"elevenlabs", "Qwen", "whisper"}
LlmNames == {"openai", "ollama", "mistral"}

\* str.lower() on the provider names above.
provider_lower(name) == IF name = "Qwen" THEN "qwen" ELSE name

\* What a constructor or factory call did: the class of the instance it
\* made, or that it raised.
Made(kind) == [raised |-> FALSE, kind |-> kind]
CreateRaised == [raised |-> TRUE, kind |-> NoName]

\* AudioCapture(...), STTFactory.create(provider, ...) and
\* LLMFactory.create(provider, ...): the factories lower the name and raise
\* ValueError for a name they do not know; a constructor raises when what
\* it needs is not available (PyObjC, dashscope, an api key).
create(c, name, available) ==
    IF ~available THEN CreateRaised
    ELSE IF c = "audio" THEN Made(CaptureKind)
    ELSE IF c = "transcription"
    THEN IF provider_lower(name) \in SttProviders
         THEN Made(provider_lower(name)) ELSE CreateRaised
    ELSE IF provider_lower(name) \in LlmProviders
         THEN Made(provider_lower(name)) ELSE CreateRaised

\* A provider instance as its constructor leaves it: BaseSTT.is_connected
\* and AudioCapture.is_capturing are False.
Instance(c, kind) == [cap |-> c, kind |-> kind, connected |-> FALSE]

\* Whether connect() and disconnect() of a provider of this class suspend
\* their caller.
suspends(kind) == kind = "elevenlabs"

\* A caller that is in no call, and the record of a call: the operation,
\* the capability, where it is suspended, the instance it constructed, the
\* provider name last set when it began and the number of instances made
\* before it began.
IdleCall ==
    [op |-> "none", cap |-> "audio", pc |-> "idle", inst |-> NoInstance,
     asked |-> NoName, before |-> 0]

Call(op, c) ==
    [op |-> op, cap |-> c, pc |-> "idle", inst |-> NoInstance,
     asked |-> asked[c], before |-> Len(instances)]

\* The last step of a service operation: who ran it, the call, how the step
\* ended ("rejected" by the running check, "raised" inside the try block,
\* "suspended" in the provider, "returned"), the value returned and the
\* instance on which a provider-side action (connect, capture start,
\* disconnect, capture stop) was issued in the step.
Sret(who, c, how, result, acted) ==
    [who |-> who, op |-> c.op, cap |-> c.cap, inst |-> c.inst, asked |-> c.asked,
     before |-> c.before, how |-> how, result |-> result, acted |-> acted]

NoSret == Sret("none", IdleCall, "returned", FALSE, NoInstance)

\* The provider names the services are constructed with (the defaults of
\* TranscriptionService.__init__ and AnalysisService.__init__).
DefaultName(c) ==
    IF c = "audio" THEN CaptureKind
    ELSE IF c = "transcription" THEN "elevenlabs" ELSE "openai"

\* __init__ of the three services: stopped, no provider, the provider names
\* of the default configuration.
InitServices ==
    /\ is_running = [c \in Capabilities |-> FALSE]
    /\ client = [c \in Capabilities |-> NoInstance]
    /\ suggestion_generator = NoInstance
    /\ instances = <<>>
    /\ config = [c \in Capabilities |-> DefaultName(c)]
    /\ asked = config
    /\ pending_restart = 0
    /\ call = [k \in Callers |-> IdleCall]
    /\ sret = NoSret

\* Faulty variant of already_running: start() never takes the capability
\* for running.
already_running_never(c) == FALSE

\* `if self.is_running:` at the head of start().
already_running(c) == is_running[c]

\* Faulty variant of not_running: stop() never takes the capability for
\* stopped.
not_running_never(c) == FALSE

\* `if not self.is_running:` at the head of stop().
not_running(c) == ~is_running[c]

\* Faulty variant of start_provider: start() constructs the provider the
\* service was first configured with.
start_provider_default(c, available) == create(c, DefaultName(c), available)

\* The provider start() constructs: always a new one, from the
\* configuration the service holds when start() is called.
start_provider(c, available) == create(c, config[c], available)

\* start() of capability c called by k, up to its first suspension or its
\* return.  `available` tells whether the constructor finds what it needs;
\* `ok` is what the provider reports without suspending: validate_config()
\* of the stt client, the whole of AudioCapture.start().
start(k, c, available, ok) ==
    LET me == Call("start", c)
        made == start_provider(c, available)
        id == Len(instances) + 1
        mine == [me EXCEPT !.inst = id]
    IN  IF already_running(c)
        THEN /\ sret' = Sret(k, me, "rejected", FALSE, NoInstance)
             /\ UNCHANGED <<is_running, client, suggestion_generator, instances, call>>
        ELSE IF made.raised
        THEN /\ sret' = Sret(k, me, "raised", FALSE, NoInstance)
             /\ UNCHANGED <<is_running, client, suggestion_generator, instances, call>>
        ELSE /\ client' = [client EXCEPT ![c] = id]
             /\ IF c = "analysis"
                THEN /\ instances' = Append(instances, Instance(c, made.kind))
                     /\ suggestion_generator' = id
                     /\ is_running' = [is_running EXCEPT ![c] = TRUE]
                     /\ sret' = Sret(k, mine, "returned", TRUE, NoInstance)
                     /\ UNCHANGED call
                ELSE IF suspends(made.kind) /\ ok
                THEN /\ instances' = Append(instances, Instance(c, made.kind))
                     /\ call' = [call EXCEPT ![k] = [mine EXCEPT !.pc = "connect"]]
                     /\ sret' = Sret(k, mine, "suspended", FALSE, id)
                     /\ UNCHANGED <<is_running, suggestion_generator>>
                ELSE /\ instances' = Append(instances,
                                       [Instance(c, made.kind) EXCEPT !.connected = ok])
                     /\ is_running' = IF ok THEN [is_running EXCEPT ![c] = TRUE]
                                      ELSE is_running
                     /\ sret' = Sret(k, mine, "returned", ok, id)
                     /\ UNCHANGED <<suggestion_generator, call>>

\* TranscriptionService.start resumed by the end of stt_client.connect():
\* `connected` tells whether websockets.connect returned or raised (connect
\* catches it and reports False).
connect_done(k, connected) ==
    LET c == call[k].cap
    IN  /\ call[k].pc = "connect"
        /\ instances' = [instances EXCEPT ![call[k].inst].connected = connected]
        /\ is_running' = IF connected THEN [is_running EXCEPT ![c] = TRUE] ELSE is_running
        /\ sret' = Sret(k, call[k], "returned", connected, NoInstance)
        /\ call' = [call EXCEPT ![k] = IdleCall]
        /\ UNCHANGED <<client, suggestion_generator>>

\* stop() of capability c called by k, up to its first suspension or its
\* return.
stop(k, c) ==
    LET me == Call("stop", c)
        id == client[c]
        mine == [me EXCEPT !.inst = id]
    IN  IF not_running(c)
        THEN /\ sret' = Sret(k, me, "rejected", FALSE, NoInstance)
             /\ UNCHANGED <<is_running, client, suggestion_generator, instances, call>>
        ELSE IF c = "analysis"
        THEN /\ client' = [client EXCEPT ![c] = NoInstance]
             /\ suggestion_generator' = NoInstance
             /\ is_running' = [is_running EXCEPT ![c] = FALSE]
             /\ sret' = Sret(k, mine, "returned", TRUE, NoInstance)
             /\ UNCHANGED <<instances, call>>
        ELSE IF id = NoInstance
        THEN /\ is_running' = [is_running EXCEPT ![c] = FALSE]
             /\ sret' = Sret(k, mine, "returned", TRUE, NoInstance)
             /\ UNCHANGED <<client, suggestion_generator, instances, call>>
        ELSE IF suspends(instances[id].kind) /\ instances[id].connected
        THEN /\ call' = [call EXCEPT ![k] = [mine EXCEPT !.pc = "disconnect"]]
             /\ sret' = Sret(k, mine, "suspended", FALSE, id)
             /\ UNCHANGED <<is_running, client, suggestion_generator, instances>>
        ELSE /\ instances' = [instances EXCEPT ![id].connected = FALSE]
             /\ client' = [client EXCEPT ![c] = NoInstance]
             /\ is_running' = [is_running EXCEPT ![c] = FALSE]
             /\ sret' = Sret(k, mine, "returned", TRUE, id)
             /\ UNCHANGED <<suggestion_generator, call>>

\* TranscriptionService.stop resumed by the end of stt_client.disconnect():
\* `closed` tells whether websocket.close() returned or raised.
disconnect_done(k, closed) ==
    LET c == call[k].cap
    IN  /\ call[k].pc = "disconnect"
        /\ call' = [call EXCEPT ![k] = IdleCall]
        /\ UNCHANGED suggestion_generator
        /\ IF closed
           THEN /\ instances' = [instances EXCEPT ![call[k].inst].connected = FALSE]
                /\ client' = [client EXCEPT ![c] = NoInstance]
                /\ is_running' = [is_running EXCEPT ![c] = FALSE]
                /\ sret' = Sret(k, call[k], "returned", TRUE, NoInstance)
           ELSE /\ sret' = Sret(k, call[k], "raised", FALSE, NoInstance)
                /\ UNCHANGED <<instances, client, is_running>>

\* `if provider: self.provider = provider` of update_config.
stored(old, new) == IF new # NoName THEN new ELSE old

\* TranscriptionService.update_config(provider=...)
update_config(provider) ==
    /\ config' = [config EXCEPT !["transcription"] = stored(@, provider)]
    /\ sret' = Sret("config", [IdleCall EXCEPT !.op = "update_config"],
                    "returned", FALSE, NoInstance)
    /\ UNCHANGED <<is_running, client, suggestion_generator, instances, call,
                   pending_restart>>

\* AnalysisService.update_llm_config(provider=...): a provider that differs
\* from the one held is stored and a task running _restart() is created.
update_llm_config(provider) ==
    LET changed == provider # NoName /\ provider # config["analysis"]
    IN  /\ config' = [config EXCEPT !["analysis"] = IF changed THEN provider ELSE @]
        /\ pending_restart' = IF changed THEN pending_restart + 1 ELSE pending_restart
        /\ sret' = Sret("config", [IdleCall EXCEPT !.op = "update_llm_config"],
                        "returned", FALSE, NoInstance)
        /\ UNCHANGED <<is_running, client, suggestion_generator, instances, call>>

\* AnalysisService._restart(): stop() then start(), neither of which
\* suspends, run by the task update_llm_config created.
restart(available) ==
    LET me == Call("start", "analysis")
        made == start_provider("analysis", available)
        id == Len(instances) + 1
    IN  /\ pending_restart > 0
        /\ pending_restart' = pending_restart - 1
        /\ UNCHANGED <<config, call>>
        /\ IF made.raised
           THEN /\ client' = [client EXCEPT !["analysis"] = NoInstance]
                /\ suggestion_generator' = NoInstance
                /\ is_running' = [is_running EXCEPT !["analysis"] = FALSE]
                /\ sret' = Sret(RestartTask, me, "raised", FALSE, NoInstance)
                /\ UNCHANGED instances
           ELSE /\ instances' = Append(instances, Instance("analysis", made.kind))
                /\ client' = [client EXCEPT !["analysis"] = id]
                /\ suggestion_generator' = id
                /\ is_running' = [is_running EXCEPT !["analysis"] = TRUE]
                /\ sret' = Sret(RestartTask, [me EXCEPT !.inst = id], "returned", TRUE,
                                NoInstance)

\* ------------------------------------ analysis service: the turn tracker
\* and the orchestrator behind the running check
\* (backend/app/services/analysis_service.py)

\* What generate_suggestion of the service gives when it returns None.
ReturnedNone == [raised |-> FALSE, value |-> EmptyDict, none |-> TRUE]

\* A step of add_conversation_turn or generate_suggestion of the service.
Aret(op, how) ==
    Sret("analysis", [IdleCall EXCEPT !.op = op, !.cap = "analysis"], how, FALSE,
         NoInstance)

\* Faulty variant of analysis_unavailable: the service never takes itself
\* for stopped.
analysis_unavailable_never == FALSE

\* `if not self.is_running` of add_conversation_turn and
\* `if not self.is_running or not self.suggestion_generator` of
\* generate_suggestion: a stopped service holds no orchestrator.
analysis_unavailable ==
    ~is_running["analysis"] \/ suggestion_generator = NoInstance

\* AnalysisService.add_conversation_turn(text, speaker)
add_conversation_turn(text, speaker) ==
    IF analysis_unavailable
    THEN UNCHANGED <<conversation_history, current_speaker, clock, calls>>
    ELSE add_turn(text, speaker)

\* AnalysisService.generate_suggestion(context_turns) up to its first
\* suspension or its return: None when the service is stopped, and the
\* orchestrator's generate_suggestion otherwise.
service_generate_suggestion(n) ==
    IF analysis_unavailable
    THEN /\ gs.pc # "chat"
         /\ gs' = [pc |-> "done", context |-> <<>>, chat_at_call |-> chat_calls]
         /\ response' = NoResponse
         /\ suggestion' = ReturnedNone
         /\ UNCHANGED <<chat_calls, parse_in, parse_out, context>>
    ELSE generate_suggestion(n)

\* --------------------------------------------- pipeline: the operators
\* (stream_transcription_results of backend/app/api/websocket/handlers.py)
\*
\* The loop is one coroutine.  It is suspended while it waits for the next
\* result of the provider ("next"), for a delivery attempt of a broadcast
\* ("send") and for generate_suggestion ("suggest").  The other positions
\* ("broadcast_done", "turn_added", "suggested", "except") are passed
\* through without a suspension: nothing else runs while the loop is at
\* one of them.

\* What the names audio_service and analysis_service stand for when the
\* loop looks them up: they are globals of the module that the function
\* does not receive, so a name is unbound, None or a service.
Bindings == {"unbound", "none", "service"}

\* generate_suggestion(self, context_turns: int = 5)
DefaultContextTurns == 5

NoResult == [text |-> <<>>, is_final |-> FALSE, none |-> TRUE]

\* STTResult(text, is_final, ...)
STTResult(text, is_final) == [text |-> text, is_final |-> is_final, none |-> FALSE]

\* The loop before stream_transcription_results is called.
IdlePipe ==
    [pc |-> "idle", audio |-> "service", analysis |-> "service",
     result |-> NoResult, event |-> "none", consumed |-> 0]

\* The transcription provider's stream: the results it has ready, how many
\* it has produced and whether it is open, has ended or has raised.
OpenStream == [ready |-> <<>>, produced |-> 0, finals |-> 0, state |-> "open"]

\* A connection handler that waits for the next message.
Receiving == [pc |-> "receive", msg |-> "none", cap |-> "audio", handled |-> 0]

InitHandlers ==
    /\ pipe = IdlePipe
    /\ stream = OpenStream
    /\ events = <<>>
    /\ hpos = [w \in Sockets |-> Receiving]
    /\ inbox = [w \in Sockets |-> <<>>]

\* `if not self.is_running or not self.stt_client` of
\* TranscriptionService.transcribe_stream
transcription_unavailable ==
    ~is_running["transcription"] \/ client["transcription"] = NoInstance

\* `if not audio_service` and the first step of the async for: where the
\* loop is once it has been called.
pipeline_entry(audio) ==
    IF audio = "unbound" THEN "except"
    ELSE IF audio = "none" THEN "returned"
    ELSE IF transcription_unavailable THEN "returned"
    ELSE "next"

\* stream_transcription_results(transcription_service) called, up to its
\* first suspension.
stream_transcription_results(audio, analysis) ==
    /\ pipe.pc = "idle"
    /\ pipe' = [pipe EXCEPT !.pc = pipeline_entry(audio),
                            !.audio = audio, !.analysis = analysis]
    /\ UNCHANGED <<stream, events>>

\* manager.broadcast_transcription / broadcast_analysis / broadcast_error
\* called by the loop whose locals are p: the message is built and
\* manager.broadcast is awaited; the loop is suspended in the first
\* delivery attempt unless the registry is empty.
pipeline_broadcast(p, type) ==
    /\ broadcast("b1")
    /\ events' = Append(events, [event |-> nbroadcast + 1, type |-> type,
                                 is_final |-> p.result.is_final])
    /\ pipe' = [p EXCEPT !.pc = IF btask'["b1"].pc = "done"
                                THEN "broadcast_done" ELSE "send",
                         !.event = type]

\* The loop's delivery attempt completes: the pass goes on to the next
\* observer or is over.
pipeline_send_json_done ==
    /\ pipe.pc = "send"
    /\ send_json_done("b1")
    /\ pipe' = [pipe EXCEPT !.pc = IF btask'["b1"].pc = "done"
                                   THEN "broadcast_done" ELSE "send"]
    /\ UNCHANGED <<stream, events>>

\* The async for is resumed: the provider hands over its next result, which
\* is broadcast, or its stream is over.  The except clause of
\* TranscriptionService.transcribe_stream logs what the provider raises, so
\* that a stream that raises ends the loop as a stream that is done does.
pipeline_next ==
    /\ pipe.pc = "next"
    /\ IF stream.ready # <<>>
       THEN /\ stream' = [stream EXCEPT !.ready = Tail(@)]
            /\ pipeline_broadcast([pipe EXCEPT !.result = Head(stream.ready),
                                               !.consumed = @ + 1],
                                  "transcription")
       ELSE /\ stream.state # "open"
            /\ pipe' = [pipe EXCEPT !.pc = "returned"]
            /\ UNCHANGED <<stream, events, mgrVars>>

\* Faulty variant of after_transcription: a result that is not final is
\* handled as a final one.
after_transcription_any_result(p) ==
    IF p.analysis = "unbound" THEN "except"
    ELSE IF p.analysis = "none" THEN "next"
    ELSE "suggest"

\* Where the loop goes once broadcast_transcription has returned and no
\* suggestion is asked for: `if result.is_final and analysis_service`.
after_transcription(p) ==
    IF ~p.result.is_final THEN "next"
    ELSE IF p.analysis = "unbound" THEN "except"
    ELSE IF p.analysis = "none" THEN "next"
    ELSE "suggest"

\* The call of manager.broadcast has returned to the loop.  After a
\* transcription event of a final result the turn is added; after an
\* analysis event the loop asks for the next result; after the error event
\* of the except clause the function returns.
pipeline_broadcast_done ==
    /\ pipe.pc = "broadcast_done"
    /\ btask' = [btask EXCEPT !["b1"] = IdleTask]
    /\ UNCHANGED <<active_connections, broken, received, nbroadcast, mret>>
    /\ UNCHANGED <<stream, events, sgVars, context>>
    /\ IF pipe.event = "transcription" /\ after_transcription(pipe) = "suggest"
       THEN /\ add_conversation_turn(pipe.result.text, "other")
            /\ pipe' = [pipe EXCEPT !.pc = "turn_added"]
       ELSE /\ pipe' = [pipe EXCEPT !.pc =
                          IF pipe.event = "transcription" THEN after_transcription(pipe)
                          ELSE IF pipe.event = "analysis" THEN "next"
                          ELSE "returned"]
            /\ UNCHANGED <<conversation_history, current_speaker, clock, calls>>

\* `suggestion = await analysis_service.generate_suggestion()`: the loop
\* itself awaits the call, up to the model call or to the return.
pipeline_generate_suggestion ==
    /\ pipe.pc = "turn_added"
    /\ service_generate_suggestion(DefaultContextTurns)
    /\ pipe' = [pipe EXCEPT !.pc = IF gs'.pc = "chat" THEN "suggest" ELSE "suggested"]
    /\ UNCHANGED <<stream, events>>

\* generate_suggestion is resumed by what llm_client.chat did and returns to
\* the loop.
pipeline_chat_done(resp) ==
    /\ pipe.pc = "suggest"
    /\ chat_done(resp)
    /\ pipe' = [pipe EXCEPT !.pc = "suggested"]
    /\ UNCHANGED <<stream, events>>

\* `if suggestion`: None and the empty dict count as no suggestion.
truthy(s) == s # ReturnedNone /\ DOMAIN s.value # {}

\* WSAnalysisMessage(**suggestion): the four fields, each a string.
valid_analysis(s) ==
    /\ DOMAIN s.value = Range(Fields)
    /\ \A k \in DOMAIN s.value : s.value[k].str

\* `if suggestion: await manager.broadcast_analysis(**suggestion)`
pipeline_suggested ==
    /\ pipe.pc = "suggested"
    /\ IF ~truthy(suggestion)
       THEN /\ pipe' = [pipe EXCEPT !.pc = "next"]
            /\ UNCHANGED <<events, mgrVars>>
       ELSE IF valid_analysis(suggestion)
       THEN pipeline_broadcast(pipe, "analysis")
       ELSE /\ pipe' = [pipe EXCEPT !.pc = "except"]
            /\ UNCHANGED <<events, mgrVars>>
    /\ UNCHANGED stream

\* except Exception: await manager.broadcast_error(...)
pipeline_except ==
    /\ pipe.pc = "except"
    /\ pipeline_broadcast(pipe, "error")
    /\ UNCHANGED stream

\* The provider produces a result, ends its stream or raises.
provider_yields(r) ==
    /\ stream.state = "open"
    /\ stream' = [stream EXCEPT !.ready = Append(@, r), !.produced = @ + 1,
                                !.finals = IF r.is_final THEN @ + 1 ELSE @]

provider_ends(state) ==
    /\ stream.state = "open"
    /\ stream' = [stream EXCEPT !.state = state]

\* No coroutine is between two suspensions.
Settled == pipe.pc \notin {"broadcast_done", "turn_added", "suggested", "except"}

\* ------------------------------------- connection handler: the operators
\* (handle_websocket_connection and handle_command of handlers.py)
\*
\* A handler is suspended while it waits for a message ("receive") and
\* while a start() or stop() it awaits is suspended in the provider
\* ("await"); between the calls of a start or stop command ("command") it
\* does not suspend.

\* What a client sends: a command with one of the three actions or with
\* another one, an object of another type, text that json.loads or
\* message.get rejects, and the close of the connection.
Messages ==
    {"start", "stop", "status", "unknown_action", "unknown_type", "malformed",
     "disconnect"}

\* The caller a handler is when it calls start() and stop().
caller(w) == IF w = "w1" THEN "k1" ELSE "k2"

\* Faulty variant of branch: a command with an unknown action is run as a
\* start command.
branch_unknown_starts(m) ==
    CASE m = "disconnect" -> "disconnected"
      [] m = "malformed" -> "except"
      [] m = "unknown_type" -> "error"
      [] m = "unknown_action" -> "start"
      [] OTHER -> m

\* The branch of handle_websocket_connection and handle_command a message
\* takes: receive_text raises WebSocketDisconnect, json.loads raises,
\* `message_type == "command"` fails, or the action is start, stop, status
\* or something else.
branch(m) ==
    CASE m = "disconnect" -> "disconnected"
      [] m = "malformed" -> "except"
      [] m = "unknown_type" -> "error"
      [] m = "unknown_action" -> "error"
      [] OTHER -> m

\* websocket.send_json(message) of send_personal_message: the message
\* reaches the client unless its peer is gone.
personal(w, type) ==
    IF w \in broken THEN inbox ELSE [inbox EXCEPT ![w] = Append(@, type)]

\* The handler of w is resumed by a message.
receive(w, m) ==
    LET b == branch(m)
        h == [hpos[w] EXCEPT !.msg = m, !.handled = @ + 1]
    IN  /\ handler[w] = "running"
        /\ hpos[w].pc = "receive"
        /\ CASE b = "disconnected" ->
                  /\ unregister(w)
                  /\ handler' = [handler EXCEPT ![w] = "returned"]
                  /\ hpos' = [hpos EXCEPT ![w] = h]
                  /\ UNCHANGED inbox
             [] b = "except" ->
                  /\ active_connections' = disconnect(active_connections, w)
                  /\ mret' = Mret("send_personal_message", w, w \in broken)
                  /\ inbox' = personal(w, "error")
                  /\ handler' = [handler EXCEPT ![w] = "returned"]
                  /\ hpos' = [hpos EXCEPT ![w] = h]
                  /\ UNCHANGED <<broken, btask, received, nbroadcast>>
             [] b \in {"error", "status"} ->
                  /\ send_personal_message(w)
                  /\ inbox' = personal(w, b)
                  /\ hpos' = [hpos EXCEPT ![w] = h]
                  /\ UNCHANGED handler
             [] OTHER ->
                  /\ hpos' = [hpos EXCEPT ![w] = [h EXCEPT !.pc = "command", !.cap = "audio"]]
                  /\ UNCHANGED <<mgrVars, inbox>>

\* handle_start_command and handle_stop_command go through the services in
\* this order.
next_capability(c) == IF c = "audio" THEN "transcription" ELSE "analysis"

\* A call of start() or stop() has returned to the handler of w: the next
\* service is called, or the command is over and the client is told.
command_goes_on(w) ==
    LET h == hpos[w]
    IN  IF h.cap = "analysis"
        THEN /\ send_personal_message(w)
             /\ inbox' = personal(w, "info")
             /\ hpos' = [hpos EXCEPT ![w] = [h EXCEPT !.pc = "receive"]]
        ELSE /\ hpos' = [hpos EXCEPT ![w] = [h EXCEPT !.pc = "command",
                                                      !.cap = next_capability(h.cap)]]
             /\ UNCHANGED <<active_connections, broken, btask, received, nbroadcast,
                            mret, inbox>>

\* The handler of w calls start() or stop() of the service it has come to.
command_step(w, available, ok) ==
    LET h == hpos[w]
        k == caller(w)
    IN  /\ h.pc = "command"
        /\ IF h.msg = "stop" THEN stop(k, h.cap) ELSE start(k, h.cap, available, ok)
        /\ IF call'[k].pc # "idle"
           THEN /\ hpos' = [hpos EXCEPT ![w] = [h EXCEPT !.pc = "await"]]
                /\ UNCHANGED <<active_connections, broken, btask, received,
                               nbroadcast, mret, inbox>>
           ELSE command_goes_on(w)

\* The start() or stop() the handler of w awaits is resumed by the provider.
command_resumed(w, done) ==
    LET k == caller(w)
    IN  /\ hpos[w].pc = "await"
        /\ IF call[k].pc = "connect" THEN connect_done(k, done)
           ELSE disconnect_done(k, done)
        /\ command_goes_on(w)

\* No handler is between two calls of a command.
HandlersSettled == \A w \in Sockets : hpos[w].pc # "command"

\* ----------------------------------------------------- buffer: the actions

\* No write-then-drain scenario is being run.
ScenOff == [phase |-> "off", S |-> 0, N |-> 0, chunks |-> <<>>]

\* ConversationAnalyzer.__init__
InitTracker ==
    /\ conversation_history = <<>>
    /\ current_speaker = "none"
    /\ clock = 0
    /\ calls = <<>>
    /\ context = NoContext

InitB ==
    /\ InitBuffer /\ scen = ScenOff /\ InitTracker /\ InitSuggest /\ InitManager
    /\ InitServices
    /\ InitHandlers

Write ==
    \E k \in WriteLens :
        /\ written + k <= MaxWritten
        /\ write(NewData(k))
        /\ UNCHANGED <<svcVars, hdlVars, yielded, nclears, scen, trkVars, sgVars, mgrVars>>

ReadChunk ==
    /\ read_chunk(Caller)
    /\ UNCHANGED <<svcVars, hdlVars, new_data_event, pc, written, yielded, dropped, nclears, scen, trkVars, sgVars, mgrVars>>

Clear ==
    /\ nclears < MaxClears
    /\ clear
    /\ UNCHANGED <<svcVars, hdlVars, new_data_event, pc, written, yielded, scen, trkVars, sgVars, mgrVars>>

StreamChunks(s) == stream_chunks(s) /\ UNCHANGED <<svcVars, hdlVars, scen, trkVars, sgVars, mgrVars>>

NextBuffer == Write \/ ReadChunk \/ Clear \/ \E s \in Streamers : StreamChunks(s)

SpecBuffer == InitB /\ [][NextBuffer]_vars

\* The program as it is wired: AudioService hands out stream_chunks()
\* generators (get_audio_stream) and nothing else calls read_chunk().
NextStream == Write \/ Clear \/ \E s \in Streamers : StreamChunks(s)

SpecStream == InitB /\ [][NextStream]_vars

\* The event loop runs every coroutine that is ready to run, and a consumer
\* that keeps iterating asks a generator suspended at its yield for the next
\* chunk: the streamer of such a consumer (s1) eventually takes every step it
\* can take.  The other streamer may be abandoned at any point, and the
\* producer and the callers of clear() are under no obligation.
SpecStreamFair == SpecStream /\ WF_vars(StreamChunks("s1"))

\* The write-then-drain scenario: starting from an empty buffer, N writes of
\* S samples each, then read_chunk() again and again until it reports
\* not-ready.
InitDrain ==
    /\ InitBuffer
    /\ InitTracker
    /\ InitSuggest
    /\ InitManager
    /\ InitServices
    /\ InitHandlers
    /\ \E s \in 0..MaxDrainS :
          scen = [phase |-> "writing", S |-> s, N |-> 0, chunks |-> <<>>]

DrainWrite ==
    /\ scen.phase = "writing"
    /\ scen.N < MaxDrainN
    /\ write(NewData(scen.S))
    /\ scen' = [scen EXCEPT !.N = @ + 1]
    /\ UNCHANGED <<svcVars, hdlVars, yielded, nclears, trkVars, sgVars, mgrVars>>

DrainRead ==
    /\ scen.phase \in {"writing", "draining"}
    /\ read_chunk(Caller)
    /\ scen' = IF ret'.none
               THEN [scen EXCEPT !.phase = "done"]
               ELSE [scen EXCEPT !.phase = "draining", !.chunks = Append(@, ret'.chunk)]
    /\ UNCHANGED <<svcVars, hdlVars, new_data_event, pc, written, yielded, dropped, nclears, trkVars, sgVars, mgrVars>>

NextDrain == DrainWrite \/ DrainRead

SpecDrain == InitDrain /\ [][NextDrain]_vars

\* ---------------------------------------------------- tracker: the actions

AddTurn ==
    \E text \in Texts : \E speaker \in Speakers \cup {NoSpeaker} :
        /\ clock < MaxTurns
        /\ add_turn(text, speaker)
        /\ context' = NoContext
        /\ UNCHANGED <<svcVars, hdlVars, bufVars, scen, sgVars, mgrVars>>

ClearHistory ==
    /\ clear_history
    /\ context' = NoContext
    /\ UNCHANGED <<svcVars, hdlVars, bufVars, scen, sgVars, mgrVars>>

GetContextText ==
    \E n \in 0..(MaxHistory + 1) :
        /\ context' = [called |-> TRUE, n |-> n, text |-> get_context_text(n)]
        /\ UNCHANGED <<svcVars, hdlVars, bufVars, scen, sgVars, mgrVars,
                       conversation_history, current_speaker, clock, calls>>

NextTracker == AddTurn \/ ClearHistory \/ GetContextText

SpecTracker == InitB /\ [][NextTracker]_vars

\* ------------------------------------- suggestion generator: the actions

\* The lines of the texts handed to the parser: an empty line, plain text
\* (with and without whitespace around it), lines that carry a keyword, and
\* the pieces of JSON objects.
ReplyLines ==
    { <<>>,
      <<" ", "x", " ">>,
      <<"y">>,
      <<"Intent:", " ", "a">>,
      <<"sikao">>,
      <<"needed">>,
      <<"xuqiu", "jianyi">>,
      <<"huifu">>,
      <<"{", PairIntent>>,
      <<PairIntentNumber>>,
      <<PairReply, "}">>,
      <<"{", "x", "}">>,
      <<"{", "}">> }

\* The texts of up to n lines.
TextsOfLines(n) ==
    UNION {{join_lines(ls) : ls \in [1..k -> ReplyLines]} : k \in 0..n}

\* The texts handed to _parse_response and _extract_from_text on their own.
Contents == TextsOfLines(MaxLines)

\* The replies of the language model in a run of generate_suggestion.
Replies == TextsOfLines(MaxReplyLines)

\* The context_turns a caller asks for (5 by default, more than the history
\* holds here).
ContextTurns == {1, MaxHistory + 1}

\* AnalysisService.add_conversation_turn as the pipeline loop calls it: the
\* text of a final transcription result, speaker "other".
AddConversationTurn ==
    \E text \in Texts :
        /\ clock < MaxSgTurns
        /\ add_turn(text, "other")
        /\ context' = NoContext
        /\ UNCHANGED <<svcVars, hdlVars, bufVars, scen, sgVars, mgrVars>>

GenerateSuggestion ==
    \E n \in ContextTurns :
        /\ generate_suggestion(n)
        /\ UNCHANGED <<svcVars, hdlVars, bufVars, scen, mgrVars,
                       conversation_history, current_speaker, clock, calls>>

ChatReturns ==
    /\ gs.pc = "chat"
    /\ \E content \in Replies :
          /\ chat_done(Returned(content))
          /\ UNCHANGED <<svcVars, hdlVars, bufVars, scen, trkVars, mgrVars>>

\* Faulty variant of ChatRaises: the handler of the failure resets the turn
\* tracker.
ChatRaisesClears ==
    /\ chat_done(ChatRaised)
    /\ clear_history
    /\ UNCHANGED context
    /\ UNCHANGED <<svcVars, hdlVars, bufVars, scen, mgrVars>>

ChatRaises ==
    /\ chat_done(ChatRaised)
    /\ UNCHANGED <<svcVars, hdlVars, bufVars, scen, trkVars, mgrVars>>

NextSuggest ==
    AddConversationTurn \/ ClearHistory \/ GenerateSuggestion \/ ChatReturns \/ ChatRaises

SpecSuggest == InitB /\ [][NextSuggest]_vars

\* The parser on its own: a text is handed to _parse_response or to
\* _extract_from_text.
InitParse ==
    /\ InitBuffer
    /\ scen = ScenOff
    /\ InitTracker
    /\ InitManager
    /\ InitServices
    /\ InitHandlers
    /\ gs = [pc |-> "idle", context |-> <<>>, chat_at_call |-> 0]
    /\ chat_calls = 0
    /\ response = NoResponse
    /\ suggestion = NoOutcome
    /\ parse_in \in Contents
    /\ parse_out = NotParsed

ParseResponse ==
    /\ parse_out.op = "none"
    /\ parse_out' = [op |-> "_parse_response", result |-> parse_response(parse_in)]
    /\ UNCHANGED <<svcVars, hdlVars, parse_in, gs, chat_calls, response, suggestion,
                   bufVars, scen, trkVars, mgrVars>>

ExtractFromText ==
    /\ parse_out.op = "none"
    /\ parse_out' = [op |-> "_extract_from_text", result |-> extract_from_text(parse_in)]
    /\ UNCHANGED <<svcVars, hdlVars, parse_in, gs, chat_calls, response, suggestion,
                   bufVars, scen, trkVars, mgrVars>>

NextParse == ParseResponse \/ ExtractFromText

SpecParse == InitParse /\ [][NextParse]_vars

\* -------------------------------------- connection manager: the actions

\* The peer of a websocket goes away: from now on accept() and send_json()
\* on it raise.
Break ==
    \E w \in Sockets :
        /\ w \notin broken
        /\ broken' = broken \cup {w}
        /\ mret' = Mret("break", NoSocket, FALSE)
        /\ UNCHANGED <<active_connections, handler, btask, received, nbroadcast>>
        /\ UNCHANGED <<svcVars, hdlVars, bufVars, scen, trkVars, sgVars>>

\* No broadcast call is in progress: none is in a pass, and the task of a
\* call that has returned has ended.
Quiet == \A t \in Tasks : btask[t].pc \in {"idle", "ended"}

\* The operations of the manager called one after the other, each on any
\* websocket: register, unregister and broadcast.
Register ==
    \E w \in Sockets :
        /\ Quiet
        /\ Len(active_connections) < MaxRegistry
        /\ connect(w)
        /\ UNCHANGED <<svcVars, hdlVars, handler, bufVars, scen, trkVars, sgVars>>

Unregister ==
    \E w \in Sockets :
        /\ Quiet
        /\ unregister(w)
        /\ UNCHANGED <<svcVars, hdlVars, handler, bufVars, scen, trkVars, sgVars>>

BroadcastAlone ==
    /\ Quiet
    /\ broadcast("b1")
    /\ UNCHANGED <<svcVars, hdlVars, handler, bufVars, scen, trkVars, sgVars>>

SendJsonDone(t) ==
    /\ send_json_done(t)
    /\ UNCHANGED <<svcVars, hdlVars, handler, bufVars, scen, trkVars, sgVars>>

TaskEnd(t) ==
    /\ task_end(t)
    /\ UNCHANGED <<svcVars, hdlVars, handler, bufVars, scen, trkVars, sgVars>>

NextBroadcast ==
    \/ Register
    \/ Unregister
    \/ BroadcastAlone
    \/ Break
    \/ SendJsonDone("b1")
    \/ TaskEnd("b1")

SpecBroadcast == InitB /\ [][NextBroadcast]_vars

\* The websockets that connect while broadcasts overlap.
Clients == {"w1", "w2"}

\* The manager as the connection handlers use it
\* (handle_websocket_connection): a handler registers its own websocket
\* once, sends personal messages to it while it runs and unregisters it
\* when it returns; broadcasts are called by tasks of their own, and
\* nothing keeps one operation from starting while another is suspended.
Connect ==
    \E w \in Clients :
        /\ handler[w] = "new"
        /\ connect(w)
        /\ handler' = [handler EXCEPT ![w] = IF w \in broken THEN "returned" ELSE "running"]
        /\ UNCHANGED <<svcVars, hdlVars, bufVars, scen, trkVars, sgVars>>

HandlerExit ==
    \E w \in Clients :
        /\ handler[w] = "running"
        /\ unregister(w)
        /\ handler' = [handler EXCEPT ![w] = "returned"]
        /\ UNCHANGED <<svcVars, hdlVars, bufVars, scen, trkVars, sgVars>>

SendPersonalMessage ==
    \E w \in Clients :
        /\ handler[w] = "running"
        /\ send_personal_message(w)
        /\ UNCHANGED <<svcVars, hdlVars, handler, bufVars, scen, trkVars, sgVars>>

Broadcast(t) ==
    /\ broadcast(t)
    /\ UNCHANGED <<svcVars, hdlVars, handler, bufVars, scen, trkVars, sgVars>>

ClientGone ==
    \E w \in Clients :
        /\ w \notin broken
        /\ broken' = broken \cup {w}
        /\ mret' = Mret("break", NoSocket, FALSE)
        /\ UNCHANGED <<active_connections, handler, btask, received, nbroadcast>>
        /\ UNCHANGED <<svcVars, hdlVars, bufVars, scen, trkVars, sgVars>>

NextManager ==
    \/ Connect
    \/ HandlerExit
    \/ SendPersonalMessage
    \/ ClientGone
    \/ \E t \in Tasks : Broadcast(t) \/ SendJsonDone(t) \/ TaskEnd(t)

SpecManager == InitB /\ [][NextManager]_vars

\* ------------------------------------------------- services: the actions

\* start() called on a capability, with any outcome of the constructor and
\* of the provider.
Start(k, c) ==
    \E available \in BOOLEAN : \E ok \in BOOLEAN :
        /\ call[k].pc = "idle"
        /\ Len(instances) < MaxInstances
        /\ start(k, c, available, ok)
        /\ UNCHANGED <<config, asked, pending_restart>>
        /\ UNCHANGED <<hdlVars, bufVars, scen, trkVars, sgVars, mgrVars>>

ConnectDone(k) ==
    \E connected \in BOOLEAN :
        /\ connect_done(k, connected)
        /\ UNCHANGED <<config, asked, pending_restart>>
        /\ UNCHANGED <<hdlVars, bufVars, scen, trkVars, sgVars, mgrVars>>

Stop(k, c) ==
    /\ call[k].pc = "idle"
    /\ stop(k, c)
    /\ UNCHANGED <<config, asked, pending_restart>>
    /\ UNCHANGED <<hdlVars, bufVars, scen, trkVars, sgVars, mgrVars>>

DisconnectDone(k) ==
    \E closed \in BOOLEAN :
        /\ disconnect_done(k, closed)
        /\ UNCHANGED <<config, asked, pending_restart>>
        /\ UNCHANGED <<hdlVars, bufVars, scen, trkVars, sgVars, mgrVars>>

\* PUT /api/config with an stt section: update_config with a provider name
\* or without one.  `asked` keeps the last name a caller set.
UpdateConfig ==
    \E provider \in SttNames \cup {NoName} :
        /\ update_config(provider)
        /\ asked' = IF provider # NoName
                    THEN [asked EXCEPT !["transcription"] = provider] ELSE asked
        /\ UNCHANGED <<hdlVars, bufVars, scen, trkVars, sgVars, mgrVars>>

\* PUT /api/config/llm: update_llm_config with a provider name or without.
UpdateLlmConfig ==
    \E provider \in LlmNames \cup {NoName} :
        /\ pending_restart < MaxRestarts
        /\ update_llm_config(provider)
        /\ asked' = IF provider # NoName
                    THEN [asked EXCEPT !["analysis"] = provider] ELSE asked
        /\ UNCHANGED <<hdlVars, bufVars, scen, trkVars, sgVars, mgrVars>>

\* Faulty variant of Restart: the restarted service has a new, empty turn
\* tracker.
RestartForgets ==
    \E available \in BOOLEAN :
        /\ Len(instances) < MaxInstances
        /\ restart(available)
        /\ clear_history
        /\ UNCHANGED <<asked, context>>
        /\ UNCHANGED <<hdlVars, bufVars, scen, sgVars, mgrVars>>

Restart ==
    \E available \in BOOLEAN :
        /\ Len(instances) < MaxInstances
        /\ restart(available)
        /\ UNCHANGED asked
        /\ UNCHANGED <<hdlVars, bufVars, scen, trkVars, sgVars, mgrVars>>

\* The capture session hands one sample to AudioService._on_audio_data,
\* whose task writes it to the buffer: only a session that is capturing
\* calls back.
CaptureWrite ==
    /\ client["audio"] # NoInstance
    /\ instances[client["audio"]].connected
    /\ written < MaxCaptured
    /\ write(NewData(1))
    /\ sret' = Sret("capture", [IdleCall EXCEPT !.op = "_on_audio_data"],
                    "returned", FALSE, NoInstance)
    /\ UNCHANGED <<is_running, client, suggestion_generator, instances, config,
                   asked, pending_restart, call>>
    /\ UNCHANGED <<hdlVars, yielded, nclears, scen, trkVars, sgVars, mgrVars>>

\* The services with one call at a time: the caller begins a start() or a
\* stop() only when its last call has returned (configuration updates and
\* the restart task run at any time).
NextServices ==
    \/ \E c \in Capabilities : Start("k1", c) \/ Stop("k1", c)
    \/ ConnectDone("k1")
    \/ DisconnectDone("k1")
    \/ UpdateConfig
    \/ UpdateLlmConfig
    \/ Restart

SpecServices == InitB /\ [][NextServices]_vars

\* The audio service on its own, with the samples its capture session
\* hands over while it runs and a consumer of get_audio_stream().
NextCapture ==
    \/ Start("k1", "audio")
    \/ Stop("k1", "audio")
    \/ CaptureWrite
    \/ StreamChunks("s1")

SpecCapture == InitB /\ [][NextCapture]_vars

\* The services with overlapping calls: a caller starts or stops a
\* capability while another caller's call is suspended in the provider.
NextOverlap ==
    \/ \E k \in Callers : \E c \in Capabilities : Start(k, c) \/ Stop(k, c)
    \/ \E k \in Callers : ConnectDone(k) \/ DisconnectDone(k)
    \/ UpdateConfig

SpecOverlap == InitB /\ [][NextOverlap]_vars

\* ----------------------------------------- analysis service: the actions

\* The replies of the model the service is run on: one line each.
ServiceReplies == {join_lines(<<l>>) : l \in ReplyLines}

\* add_conversation_turn of the service, running or not, with a speaker
\* named or left to the alternation.
SvcAddConversationTurn ==
    \E text \in Texts : \E speaker \in Speakers \cup {NoSpeaker} :
        /\ analysis_unavailable \/ clock < MaxSvcTurns
        /\ add_conversation_turn(text, speaker)
        /\ sret' = Aret("add_conversation_turn", "returned")
        /\ context' = NoContext
        /\ UNCHANGED <<is_running, client, suggestion_generator, instances,
                       config, asked, pending_restart, call>>
        /\ UNCHANGED <<hdlVars, bufVars, scen, sgVars, mgrVars>>

SvcGenerateSuggestion ==
    \E n \in ContextTurns :
        /\ service_generate_suggestion(n)
        /\ sret' = Aret("generate_suggestion",
                        IF gs'.pc = "chat" THEN "suspended" ELSE "returned")
        /\ UNCHANGED <<is_running, client, suggestion_generator, instances,
                       config, asked, pending_restart, call>>
        /\ UNCHANGED <<hdlVars, bufVars, scen, mgrVars,
                       conversation_history, current_speaker, clock, calls>>

\* llm_client.chat returns a reply or raises.
SvcChatDone ==
    /\ gs.pc = "chat"
    /\ \E resp \in {Returned(content) : content \in ServiceReplies} \cup {ChatRaised} :
          /\ chat_done(resp)
          /\ sret' = Aret("generate_suggestion", "returned")
          /\ UNCHANGED <<is_running, client, suggestion_generator, instances,
                         config, asked, pending_restart, call>>
          /\ UNCHANGED <<hdlVars, bufVars, scen, trkVars, mgrVars>>

\* The analysis service with its callers: it is started and stopped while
\* turns are recorded and suggestions are asked for.
NextAnalysis ==
    \/ Start("k1", "analysis")
    \/ Stop("k1", "analysis")
    \/ SvcAddConversationTurn
    \/ SvcGenerateSuggestion
    \/ SvcChatDone

SpecAnalysis == InitB /\ [][NextAnalysis]_vars

\* The analysis service with its configuration: it is started, stopped and
\* restarted by a change of provider while turns are recorded.
NextRestart ==
    \/ Start("k1", "analysis")
    \/ Stop("k1", "analysis")
    \/ SvcAddConversationTurn
    \/ UpdateLlmConfig
    \/ Restart

SpecRestart == InitB /\ [][NextRestart]_vars

\* ------------------------------------------------ pipeline: the actions

\* stream_transcription_results is called, with the two names bound to
\* the services, bound to None or unbound.
StartPipeline ==
    \E audio \in Bindings : \E analysis \in Bindings :
        /\ stream_transcription_results(audio, analysis)
        /\ UNCHANGED <<hpos, inbox, svcVars, bufVars, scen, trkVars, sgVars, mgrVars>>

PipelineNext ==
    /\ pipeline_next
    /\ UNCHANGED <<handler, hpos, inbox, svcVars, bufVars, scen, trkVars, sgVars>>

PipelineSendJsonDone ==
    /\ pipeline_send_json_done
    /\ UNCHANGED <<handler, hpos, inbox, svcVars, bufVars, scen, trkVars, sgVars>>

PipelineBroadcastDone ==
    /\ pipeline_broadcast_done
    /\ UNCHANGED <<handler, hpos, inbox, svcVars, bufVars, scen>>

PipelineGenerateSuggestion ==
    /\ pipeline_generate_suggestion
    /\ UNCHANGED <<hpos, inbox, svcVars, bufVars, scen, mgrVars,
                   conversation_history, current_speaker, clock, calls>>

\* The replies of the model the loop is run on: plain text, an object, an
\* object whose intent is a number and an object whose suggested reply is a
\* number.
PipelineReplies ==
    {<<"y">>, <<"{", PairIntent, "}">>, <<"{", PairIntentNumber, "}">>,
     <<"{", PairIntent, PairReplyNumber, "}">>}

PipelineChatDone ==
    \E resp \in {Returned(content) : content \in PipelineReplies} \cup {ChatRaised} :
        /\ pipeline_chat_done(resp)
        /\ UNCHANGED <<hpos, inbox, svcVars, bufVars, scen, trkVars, mgrVars>>

PipelineSuggested ==
    /\ pipeline_suggested
    /\ UNCHANGED <<handler, hpos, inbox, svcVars, bufVars, scen, trkVars, sgVars>>

PipelineExcept ==
    /\ pipeline_except
    /\ UNCHANGED <<handler, hpos, inbox, svcVars, bufVars, scen, trkVars, sgVars>>

\* The texts of the results of the provider.
ResultTexts == {<<"h", "i">>}

\* The provider has a result ready while the loop iterates its stream; a
\* final result makes the loop add one turn and at most one model call.
ProviderYields ==
    \E text \in ResultTexts : \E is_final \in BOOLEAN :
        /\ pipe.pc \notin {"idle", "returned"}
        /\ stream.produced < MaxResults
        /\ is_final => stream.finals < MaxSgTurns /\ stream.finals < MaxChatCalls
        /\ provider_yields(STTResult(text, is_final))
        /\ UNCHANGED <<pipe, events, hpos, inbox, svcVars, bufVars, scen, trkVars,
                       sgVars, mgrVars>>

\* The stream of the provider ends or raises.
ProviderStops ==
    \E state \in {"ended", "raised"} :
        /\ pipe.pc \notin {"idle", "returned"}
        /\ provider_ends(state)
        /\ UNCHANGED <<pipe, events, hpos, inbox, svcVars, bufVars, scen, trkVars,
                       sgVars, mgrVars>>

\* An observer registers with the manager.
ConnectObserver ==
    /\ handler["w1"] = "new"
    /\ connect("w1")
    /\ handler' = [handler EXCEPT !["w1"] = IF "w1" \in broken THEN "returned" ELSE "running"]
    /\ UNCHANGED <<svcVars, hdlVars, bufVars, scen, trkVars, sgVars>>

\* What goes on around the loop: the transcription and the analysis service
\* are started, an observer registers and the provider produces results.
AroundPipeline ==
    \/ Start("k1", "transcription")
    \/ Start("k1", "analysis")
    \/ ConnectDone("k1")
    \/ ConnectObserver
    \/ ProviderYields
    \/ ProviderStops

\* The pipeline loop with its environment.  The loop runs from one
\* suspension to the next without anything else running in between.
NextPipeline ==
    \/ Settled /\ AroundPipeline
    \/ Settled /\ StartPipeline
    \/ PipelineNext
    \/ PipelineSendJsonDone
    \/ PipelineBroadcastDone
    \/ PipelineGenerateSuggestion
    \/ PipelineChatDone
    \/ PipelineSuggested
    \/ PipelineExcept

SpecPipeline == InitB /\ [][NextPipeline]_vars

\* -------------------------------------- connection handler: the actions

Receive(w) ==
    \E m \in Messages :
        /\ hpos[w].handled < MaxMessages
        /\ w \in broken => m = "disconnect"
        /\ receive(w, m)
        /\ UNCHANGED <<pipe, stream, events, svcVars, bufVars, scen, trkVars, sgVars>>

CommandStep(w) ==
    \E available \in BOOLEAN : \E ok \in BOOLEAN :
        /\ available => Len(instances) < MaxInstances
        /\ command_step(w, available, ok)
        /\ UNCHANGED <<config, asked, pending_restart>>
        /\ UNCHANGED <<handler, pipe, stream, events, bufVars, scen, trkVars, sgVars>>

CommandResumed(w) ==
    \E done \in BOOLEAN :
        /\ command_resumed(w, done)
        /\ UNCHANGED <<config, asked, pending_restart>>
        /\ UNCHANGED <<handler, pipe, stream, events, bufVars, scen, trkVars, sgVars>>

\* The connection handler of w1 with its client: the client connects,
\* sends messages and goes away; the handler runs the commands, from one
\* suspension to the next without anything else running.
NextHandler ==
    \/ HandlersSettled /\ ConnectObserver
    \/ HandlersSettled /\ Receive("w1")
    \/ HandlersSettled /\ ClientGone
    \/ HandlersSettled /\ CommandResumed("w1")
    \/ CommandStep("w1")

SpecHandler == InitB /\ [][NextHandler]_vars

\* ------------------------------------------------- buffer: the properties

\* The last n items of s (all of s when it is shorter).
LastN(s, n) == SubSeq(s, Max(1, Len(s) - n + 1), Len(s))

\* The samples numbered a..b, in order.
Samples(a, b) == [i \in 1..(b - a + 1) |-> a + i - 1]

\* C1: after any sequence of write, read_chunk and clear operations the
\* number of buffered samples is between 0 and buffer_size, so the fill
\* ratio get_buffer_level() = len / buffer_size lies in [0, 1].
C1_LevelInUnitInterval ==
    /\ 0 <= Len(buffer) /\ Len(buffer) <= BufferSize
    /\ get_buffer_level[2] > 0
    /\ 0 <= get_buffer_level[1] /\ get_buffer_level[1] <= get_buffer_level[2]

\* C1 witness: a write has overflowed a buffer that is now exactly full.
C1_Witness ==
    /\ ret.op = "write"
    /\ get_buffer_level[1] = get_buffer_level[2]
    /\ dropped # {}

\* C2: a write never blocks (the lock is free whenever a write may start) and
\* never fails; a write that would bring the sample count above buffer_size
\* drops the oldest samples, leaving exactly the buffer_size most recently
\* written unread samples, in write order.
C2_OverflowKeepsNewest ==
    /\ [](~lock)
    /\ [][(ret'.op = "write" /\ Len(buffer) + (written' - written) > BufferSize)
            => /\ Len(buffer') = BufferSize
               /\ buffer' = LastN(buffer \o Samples(written + 1, written'), BufferSize)
               /\ buffer' = Samples(written' - BufferSize + 1, written')
               /\ dropped' \cap Range(buffer') = {}]_vars

\* C2 witness: after a chunk had been read, a write overflowed the buffer:
\* the sample just before the present head was evicted, and the buffer is full.
C2_Witness ==
    /\ ret.op = "write"
    /\ Len(buffer) = BufferSize
    /\ yielded # <<>>
    /\ buffer[1] - 1 \in dropped
    /\ buffer[1] - 1 > Len(yielded)

\* C3: whenever the buffer holds fewer than chunk_size samples, read_chunk
\* returns not-ready (None) and leaves the buffer contents unchanged.
C3_ShortBufferNotReady ==
    [][(ret'.op = "read" /\ Len(buffer) < ChunkSize)
        => (ret'.none /\ ~ret'.raised /\ ret'.chunk = NoChunk /\ buffer' = buffer)]_vars

\* C3 witness: read_chunk has reported not-ready on a buffer that holds
\* samples, all of them written since the buffer was last empty.
C3_Witness ==
    /\ ret.op = "read" /\ ret.none
    /\ buffer # <<>> /\ Len(buffer) < ChunkSize
    /\ written > 0

\* The chunks of a list, one after the other.
RECURSIVE Flatten(_)
Flatten(cs) == IF cs = <<>> THEN <<>> ELSE Head(cs) \o Flatten(Tail(cs))

\* C4 as stated: from an empty buffer, after N writes of S samples each,
\* successive read_chunk calls return exactly M = floor(N*S / chunk_size)
\* chunks and then not-ready, and the chunks together are the first
\* M*chunk_size samples written, in write order.
C4_DrainYieldsAllWritten ==
    scen.phase = "done"
        => LET M == (scen.N * scen.S) \div ChunkSize
           IN  /\ Len(scen.chunks) = M
               /\ Flatten(scen.chunks) = Samples(1, M * ChunkSize)

\* C4, amended: of the N*S samples written the buffer keeps the last
\* T = min(N*S, buffer_size); successive read_chunk calls return exactly
\* M = floor(T / chunk_size) chunks of chunk_size samples and then not-ready
\* (fewer than chunk_size samples are left), and the chunks together are the
\* first M*chunk_size of those last T samples, in write order.
C4_DrainYieldsWhatBufferKept ==
    scen.phase = "done"
        => LET T == Min(scen.N * scen.S, BufferSize)
               M == T \div ChunkSize
               first == scen.N * scen.S - T + 1
           IN  /\ Len(scen.chunks) = M
               /\ \A i \in 1..M : Len(scen.chunks[i]) = ChunkSize
               /\ Flatten(scen.chunks) = Samples(first, first + M * ChunkSize - 1)
               /\ ret.op = "read" /\ ret.none
               /\ Len(buffer) = T - M * ChunkSize

\* C4 witness: several writes overflowed the buffer, and the drain returned
\* several chunks before it reported not-ready.
C4_Witness ==
    /\ scen.phase = "done"
    /\ scen.N >= 2
    /\ scen.N * scen.S > BufferSize
    /\ Len(scen.chunks) >= 2
    /\ buffer # <<>>

\* C5: each append and each drain is atomic.  Every chunk read_chunk returns
\* is the chunk_size samples that were adjacent at the head of the buffer
\* (consecutively written ones, so no write landed inside it); after a write
\* all of its samples are in place at the tail (none half-appended); and in
\* no state, that is at no suspension point, is the lock held.
C5_AtomicAppendAndDrain ==
    /\ [](~lock)
    /\ [][(ret'.op = "read" /\ ~ret'.none)
            => /\ Len(ret'.chunk) = ChunkSize
               /\ ret'.chunk = SubSeq(buffer, 1, ChunkSize)
               /\ buffer' = SubSeq(buffer, ChunkSize + 1, Len(buffer))
               /\ \A i \in 1..(ChunkSize - 1) : ret'.chunk[i + 1] = ret'.chunk[i] + 1]_vars
    /\ [][ret'.op = "write"
            => LET k == written' - written
               IN  LastN(buffer', k) = LastN(Samples(written + 1, written'), BufferSize)]_vars

\* C5 witness: a streamer is suspended holding a chunk it was handed while a
\* later write has run and another streamer has been woken by it.
C5_Witness ==
    /\ ret.op = "write"
    /\ pc["s1"] = "yielded" /\ pc["s2"] = "woken"
    /\ Len(buffer) >= ChunkSize

\* C6: stream_chunks never yields a chunk twice and never skips one.  Over
\* all chunks yielded to all streamers of the buffer no sample appears twice,
\* the samples are yielded in write order, whole chunks at a time, and a
\* sample that was passed over was evicted by overflow or removed by clear.
C6_NoDuplicateNoSkip ==
    /\ \A i, j \in 1..Len(yielded) : i < j => yielded[i] < yielded[j]
    /\ Len(yielded) % ChunkSize = 0
    /\ Range(yielded) \cap dropped = {}
    /\ \A x \in 1..written :
          (yielded # <<>> /\ x < yielded[Len(yielded)] /\ x \notin Range(yielded))
              => x \in dropped
    /\ Range(yielded) \cup dropped \cup Range(buffer) = 1..written

\* C6 witness: both streamers hold a chunk they were handed, and samples were
\* lost to overflow or clear between the chunks yielded.
C6_Witness ==
    /\ pc["s1"] = "yielded" /\ pc["s2"] = "yielded"
    /\ Len(yielded) >= 2 * ChunkSize
    /\ \E x \in dropped : yielded[1] < x /\ x < yielded[Len(yielded)]

\* C7 as stated: whenever the buffer holds at least chunk_size samples and
\* the consumers keep iterating, a further chunk is eventually yielded.
C7_AlwaysYields ==
    \A k \in 0..MaxWritten :
        (Len(buffer) >= ChunkSize /\ Len(yielded) = k) ~> (Len(yielded) > k)

\* C7, amended: no wake-up is lost.  Whenever the buffer holds at least
\* chunk_size samples and the consumers keep iterating, a further chunk is
\* eventually yielded unless clear() is called first; every write wakes every
\* waiting streamer; and the readiness signal is reset only by a streamer
\* whose read_chunk has just reported not-ready, which then waits again.
C7_NoLostWakeup ==
    /\ \A k \in 0..MaxWritten : \A c \in 0..MaxClears :
          (Len(buffer) >= ChunkSize /\ Len(yielded) = k /\ nclears = c)
              ~> (Len(yielded) > k \/ nclears > c)
    /\ [][ret'.op = "write"
            => /\ new_data_event'
               /\ \A s \in Streamers : pc[s] = "waiting" => pc'[s] = "woken"]_vars
    /\ [][(new_data_event /\ ~new_data_event')
            => /\ ret'.op = "read" /\ ret'.none
               /\ Len(buffer') < ChunkSize
               /\ pc[ret'.who] \in {"init", "woken", "yielded"}
               /\ pc'[ret'.who] = "waiting"]_vars
    /\ [][\A s \in Streamers :
              (pc[s] \in {"woken", "yielded"} /\ pc'[s] = "waiting")
                  => (ret'.op = "read" /\ ret'.who = s /\ ret'.none)]_vars

\* C7 witness: a streamer that was waiting has been woken by a write, has
\* drained a chunk and now holds it, while the other streamer has drained the
\* rest, reset the signal and waits.
C7_Witness ==
    /\ pc["s1"] = "yielded" /\ pc["s2"] = "waiting"
    /\ ~new_data_event
    /\ Len(yielded) >= 2 * ChunkSize
    /\ buffer # <<>>

\* ------------------------------------------------ tracker: the properties

\* The turns add_turn has created since the last clear(), oldest first.
Added == [i \in 1..Len(calls) |-> calls[i].turn]

Opposite(speaker) == IF speaker = "other" THEN "user" ELSE "other"

\* C8: after any sequence of add_turn and clear calls the history has at most
\* max_history entries and is the most recent min(k, max_history) of the k
\* turns added since the last clear, in insertion order.
C8_HistoryIsNewestTurns ==
    /\ Len(conversation_history) <= MaxHistory
    /\ Len(conversation_history) = Min(Len(calls), MaxHistory)
    /\ conversation_history = LastN(Added, MaxHistory)
    /\ \A i \in 1..(Len(conversation_history) - 1) :
          conversation_history[i].timestamp < conversation_history[i + 1].timestamp

\* C8 witness: more turns were added than the history keeps, after a clear.
C8_Witness ==
    /\ Len(calls) > MaxHistory
    /\ Len(conversation_history) = MaxHistory
    /\ conversation_history[1].timestamp > Len(calls) - MaxHistory + 1

\* C9: a turn added without a speaker is 'other' when the history is empty
\* and otherwise the opposite of the last turn of the history; hence it never
\* shares its speaker with the turn added before it, and starting from an
\* empty tracker K calls without a speaker alternate other, user, other, ...
C9_InferredSpeakerAlternates ==
    /\ [][(clock' = clock + 1 /\ ~calls'[Len(calls')].given)
            => calls'[Len(calls')].turn.speaker
                 = IF conversation_history = <<>>
                   THEN "other"
                   ELSE Opposite(conversation_history[Len(conversation_history)].speaker)]_vars
    /\ [](\A i \in 1..Len(calls) :
            ~calls[i].given
                => calls[i].turn.speaker
                     = IF i = 1 THEN "other" ELSE Opposite(calls[i - 1].turn.speaker))
    /\ []((\A i \in 1..Len(calls) : ~calls[i].given)
            => \A i \in 1..Len(calls) :
                 calls[i].turn.speaker = IF i % 2 = 1 THEN "other" ELSE "user")

\* C9 witness: more calls without a speaker than the history keeps, so the
\* inference has looked at a history whose oldest turns were evicted.
C9_Witness ==
    /\ Len(calls) > MaxHistory + 1
    /\ \A i \in 1..Len(calls) : ~calls[i].given
    /\ current_speaker = "user"

\* What get_context_text(n) is to return: the last min(n, len) turns, oldest
\* first, one "label: text" line per turn.
ExpectedContext(n) ==
    LET len == Len(conversation_history)
        k == Min(n, len)
    IN  join_lines([i \in 1..k |-> context_line(conversation_history[len - k + i])])

\* C10: for every n >= 0 get_context_text(n) returns exactly the last
\* min(n, len(history)) turns, oldest first, one "label: text" line per turn,
\* and the empty string when the history is empty.
C10_ContextIsLastTurns ==
    context.called
        => /\ context.text = ExpectedContext(context.n)
           /\ conversation_history = <<>> => context.text = <<>>

\* C10 for n >= 1 only, where the code agrees with the claim.
C10_ContextIsLastTurnsPositive ==
    (context.called /\ context.n >= 1)
        => /\ context.text = ExpectedContext(context.n)
           /\ conversation_history = <<>> => context.text = <<>>

\* --------------------------------- suggestion generator: the properties

\* C11: when the context read from the turn tracker is empty,
\* generate_suggestion returns the fixed "insufficient context" suggestion
\* and llm_client.chat is not called: no call is awaited with an empty
\* context, and the count of chat calls is what it was when the call began.
C11_EmptyContextNoChat ==
    /\ gs.pc = "chat" => gs.context # <<>>
    /\ (gs.pc = "done" /\ gs.context = <<>>)
          => /\ suggestion = Ok(empty_suggestion)
             /\ chat_calls = gs.chat_at_call
             /\ ~response.called

\* A call that found the context empty has returned, in a run in which an
\* earlier call did reach the language model.
C11_Witness ==
    /\ gs.pc = "done"
    /\ gs.context = <<>>
    /\ conversation_history = <<>>
    /\ chat_calls > 0

\* C12: generate_suggestion never propagates a failure: whatever the chat
\* call did (returned a text, raised), the call returns a suggestion with
\* exactly the four fields, and the fixed suggestion when the chat call
\* raised.
C12_NeverPropagates ==
    gs.pc = "done"
        => /\ ~suggestion.raised
           /\ DOMAIN suggestion.value = Range(Fields)
           /\ response.raised => suggestion.value = empty_suggestion

\* The chat call raised and generate_suggestion has returned.
C12_Witness ==
    /\ gs.pc = "done"
    /\ response.called
    /\ response.raised
    /\ ~suggestion.raised

\* The reply holds no object that decodes.
NoDecodableObject(content) ==
    \/ ~re_search(content).found
    \/ json_loads(re_search(content).span).raised

\* The four fields are empty strings.
AllEmpty(value) == \A f \in DOMAIN value : value[f] = Str(<<>>)

\* C13: when the reply holds no decodable object and line-scanning assigns
\* no text to any field, generate_suggestion returns the fixed suggestion;
\* it never returns a suggestion whose four fields are all empty.
C13_NeverAllEmpty ==
    gs.pc = "done"
        => /\ ( /\ response.called
                /\ ~response.raised
                /\ NoDecodableObject(response.content)
                /\ AllEmpty(extract_from_text(response.content)) )
              => suggestion.value = empty_suggestion
           /\ ~AllEmpty(suggestion.value)

\* The tokens of a line that carry no keyword, without the whitespace
\* around them.
MarkerLineText(line) ==
    strip(SelectSeq(line, LAMBDA tok : substrings(tok) \cup substrings(lower(tok)) = {}))

\* The field of the last marker line at or before line i, "none" when there
\* is none.
OwnerOf(lines, i) ==
    LET marked == {j \in 1..i : line_key(strip(lines[j])) # "none"}
    IN  IF marked = {} THEN "none"
        ELSE line_key(strip(lines[CHOOSE j \in marked : \A k \in marked : k <= j]))

\* What line i gives to field f: nothing unless f owns the line; the line
\* and a space for a line without marker; for a marker line, its own text
\* and a space (own) or nothing (~own).
LineShare(lines, i, f, own) ==
    LET line == strip(lines[i])
    IN  IF OwnerOf(lines, i) # f \/ line = <<>> THEN <<>>
        ELSE IF line_key(line) = "none" THEN line \o <<" ">>
        ELSE IF own /\ MarkerLineText(line) # <<>> THEN MarkerLineText(line) \o <<" ">>
        ELSE <<>>

RECURSIVE SharesFrom(_, _, _, _)
SharesFrom(lines, i, f, own) ==
    IF i > Len(lines) THEN <<>>
    ELSE LineShare(lines, i, f, own) \o SharesFrom(lines, i + 1, f, own)

\* The text of field f in a reply of these lines.
FieldText(lines, f, own) == SharesFrom(lines, 1, f, own)

\* C14 (as stated): for a reply with no structured object, the extractor
\* assigns to each field the text on its marker lines and on the lines that
\* follow them up to the next marker, and nothing else.
C14_MarkedTextAssigned ==
    (parse_out.op # "none" /\ ~re_search(parse_in).found)
        => \A f \in Range(Fields) :
              parse_out.result[f] = Str(FieldText(split_lines(parse_in), f, TRUE))

\* C14 (amended): for a reply with no structured object, the extractor
\* assigns to each field the lines that follow its marker lines up to the
\* next marker line, and nothing else; the text on a marker line itself is
\* assigned to no field.
C14_FollowingLinesAssigned ==
    (parse_out.op # "none" /\ ~re_search(parse_in).found)
        => \A f \in Range(Fields) :
              parse_out.result[f] = Str(FieldText(split_lines(parse_in), f, FALSE))

\* A reply whose first line is a marker with text of its own, followed by a
\* line of text and by the marker of another field, has been scanned: the
\* second line is in the field of the first marker.
C14_Witness ==
    LET lines == split_lines(parse_in)
    IN  /\ parse_out.op = "_extract_from_text"
        /\ ~re_search(parse_in).found
        /\ Len(lines) = MaxLines
        /\ line_key(strip(lines[1])) = "intent"
        /\ MarkerLineText(lines[1]) # <<>>
        /\ line_key(strip(lines[2])) = "none"
        /\ line_key(strip(lines[Len(lines)])) \notin {"none", "intent"}
        /\ parse_out.result["intent"] = Str(strip(lines[2]) \o <<" ">>)

\* ---------------------------------- connection manager: the properties

\* The number of entries of a list that are x.
Occ(x, list) == Cardinality({i \in 1..Len(list) : list[i] = x})

\* C15: a broadcast attempts delivery to every registered observer, in
\* registration order, also after a delivery has raised; every observer
\* whose delivery did not raise has received the event.
C15_AllAttemptedInOrder ==
    \A t \in Tasks :
        /\ btask[t].pc = "send"
              => btask[t].attempts = SubSeq(btask[t].at_start, 1, btask[t].idx)
        /\ btask[t].pc = "done"
              => /\ btask[t].attempts = btask[t].at_start
                 /\ \A w \in Range(btask[t].at_start) \ Range(btask[t].disconnected) :
                        btask[t].event \in Range(received[w])

\* A pass over three different observers has returned: the delivery to the
\* second raised, the first and the third have the event.
C15_Witness ==
    \E t \in Tasks :
        /\ btask[t].pc = "done"
        /\ Len(btask[t].at_start) = Cardinality(Sockets)
        /\ Range(btask[t].at_start) = Sockets
        /\ btask[t].disconnected = <<btask[t].at_start[2]>>
        /\ \A w \in Sockets \ {btask[t].at_start[2]} : received[w] = <<btask[t].event>>

\* C16: an observer whose delivery raised stays in the registry while the
\* pass is iterating and is removed when the pass has finished; the
\* observers whose delivery succeeded stay; afterwards
\* get_connection_count() is the count before the broadcast minus the
\* number of failed deliveries.
C16_PrunedAfterThePass ==
    \A t \in Tasks :
        /\ btask[t].pc = "send" => active_connections = btask[t].at_start
        /\ btask[t].pc = "done"
              => /\ \A w \in Sockets :
                        Occ(w, active_connections)
                            = Occ(w, btask[t].at_start) - Occ(w, btask[t].disconnected)
                 /\ get_connection_count
                        = Len(btask[t].at_start) - Len(btask[t].disconnected)

\* A pass has returned in which the delivery to the first of several
\* observers raised: that observer is gone, the others are registered.
C16_Witness ==
    \E t \in Tasks :
        /\ btask[t].pc = "done"
        /\ Len(btask[t].at_start) > 1
        /\ btask[t].disconnected = <<btask[t].at_start[1]>>
        /\ active_connections = Tail(btask[t].at_start)
        /\ btask[t].at_start[1] \notin Range(active_connections)

\* C17: the registry holds each handle at most once, whatever register,
\* unregister and broadcast calls have been made.
C17_NoDuplicateHandle ==
    \A i, j \in 1..Len(active_connections) :
        i # j => active_connections[i] # active_connections[j]

\* The websockets disconnect() is called for in a step of the manager: the
\* one of an unregister call, the disconnected list of a pass that ends.
RemovedInStep ==
    (IF mret'.op = "disconnect" THEN {mret'.who} ELSE {})
        \cup UNION {Range(btask'[t].disconnected) :
                        t \in {u \in Tasks : btask[u].pc # "done" /\ btask'[u].pc = "done"}}

\* C18: unregister is idempotent.  A step that calls disconnect() for some
\* websockets removes those of them that are registered and changes
\* nothing else: for one that is not registered (removed before, by another
\* pass or by its handler) the registry stays as it is, and count() drops
\* by the number of observers that were registered and are removed.
C18_UnregisterIdempotent ==
    [][ /\ active_connections' # active_connections
           => active_connections' \in {Append(active_connections, w) : w \in Sockets}
              \/ RemovedInStep \cap Range(active_connections) # {}
        /\ RemovedInStep # {}
           => /\ active_connections'
                    = SelectSeq(active_connections, LAMBDA w : w \notin RemovedInStep)
              /\ Len(active_connections')
                    = Len(active_connections)
                        - Cardinality(RemovedInStep \cap Range(active_connections))
      ]_vars

\* Two overlapping passes have both failed on the same observer and have
\* both returned: it was removed twice, and the other observer is still
\* registered.
C18_Witness ==
    \E w \in Sockets :
        /\ \A t \in Tasks : btask[t].pc = "done" /\ w \in Range(btask[t].disconnected)
        /\ Len(active_connections) = 1
        /\ w \notin Range(active_connections)

\* C19: every observer receives the events in the order of the broadcast
\* calls (the events are numbered in that order), also when the calls
\* overlap.
C19_EventsInBroadcastOrder ==
    \A w \in Sockets :
        \A i, j \in 1..Len(received[w]) :
            i < j => received[w][i] < received[w][j]

\* C20: after a failed delivery attempt, through send_personal_message or
\* through broadcast, the observer is not in the registry once the
\* operation has returned.
C20_FailedObserverUnregistered ==
    /\ (mret.op = "send_personal_message" /\ mret.failed)
          => mret.who \notin Range(active_connections)
    /\ \A t \in Tasks :
          btask[t].pc = "done"
              => \A w \in Range(btask[t].disconnected) : w \notin Range(active_connections)

\* ----------------------------------------------- services: the properties

\* The step is the beginning of a call of operation op on capability c.
Called(op, c) ==
    /\ sret'.op = op
    /\ sret'.cap = c
    /\ sret'.who \in Callers
    /\ call[sret'.who].pc = "idle"

\* The provider attributes and the instances of capability c are left as
\* they are by the step.
ProviderUnchanged(c) ==
    /\ client'[c] = client[c]
    /\ instances' = instances
    /\ (c = "analysis" => suggestion_generator' = suggestion_generator)

\* C21: start() called on a capability that is running returns False,
\* constructs no provider, and leaves the capability running with the
\* provider it had.
C21_StartOnRunningRejected ==
    [][\A c \in Capabilities :
          (Called("start", c) /\ is_running[c])
              => /\ sret'.how = "rejected"
                 /\ sret'.result = FALSE
                 /\ is_running'[c]
                 /\ ProviderUnchanged(c)]_vars

\* start() was called on the running transcription service, which holds a
\* connected client, and was rejected.
C21_Witness ==
    /\ sret.op = "start"
    /\ sret.how = "rejected"
    /\ sret.cap = "transcription"
    /\ is_running["transcription"]
    /\ client["transcription"] # NoInstance
    /\ instances[client["transcription"]].connected

\* The capabilities whose provider a factory makes from a provider name.
Configured == {"transcription", "analysis"}

\* The step runs start() on capability c while it is stopped: a caller's
\* call begins, or the restart task runs stop() and then start().
StartRuns(c) ==
    \/ (Called("start", c) /\ ~is_running[c])
    \/ (c = "analysis" /\ sret'.who = RestartTask)

\* The provider attribute of capability c holds, after the step, an instance
\* constructed in this call, of the class the name last set stands for.
FreshFromLastSet(c, name, before) ==
    /\ client'[c] > before
    /\ client'[c] \in 1..Len(instances')
    /\ instances'[client'[c]].cap = c
    /\ instances'[client'[c]].kind = provider_lower(name)

\* C22: a start() on a stopped capability (after a stop() that succeeded, or
\* the first) is not rejected; unless the factory raises, it constructs a new
\* provider from the provider name last set, whether that was set while the
\* capability ran or while it was stopped; and when start() reports success
\* the capability runs with that new instance, not with an earlier one.
C22_RestartUsesLastConfiguration ==
    [][\A c \in Configured :
          /\ StartRuns(c) =>
                /\ sret'.how # "rejected"
                /\ sret'.asked = asked[c]
                /\ sret'.how # "raised" =>
                      /\ Len(instances') = Len(instances) + 1
                      /\ FreshFromLastSet(c, asked[c], Len(instances))
                /\ sret'.how = "raised" => instances' = instances
          /\ (sret'.op = "start" /\ sret'.cap = c /\ sret'.result) =>
                /\ is_running'[c]
                /\ client'[c] = sret'.inst
                /\ FreshFromLastSet(c, sret'.asked, sret'.before)]_vars

\* The transcription service was started, reconfigured, stopped and started
\* again with success: it runs with a second instance of another class than
\* the first, which is disconnected.
C22_Witness ==
    /\ sret.op = "start"
    /\ sret.cap = "transcription"
    /\ sret.result
    /\ sret.inst = 2
    /\ instances[1].cap = "transcription"
    /\ instances[1].kind # instances[2].kind
    /\ ~instances[1].connected
    /\ client["transcription"] = 2

\* C23: stop() called on a capability that is not running returns False,
\* leaves it not running and issues no provider-side action: no disconnect
\* and no capture stop, so every instance is as connected as it was.
C23_StopOnStoppedRejected ==
    [][\A c \in Capabilities :
          (Called("stop", c) /\ ~is_running[c])
              => /\ sret'.how = "rejected"
                 /\ sret'.result = FALSE
                 /\ sret'.acted = NoInstance
                 /\ ~is_running'[c]
                 /\ ProviderUnchanged(c)]_vars

\* stop() was called on a stopped capability for which a provider had been
\* constructed, and was rejected.
C23_Witness ==
    /\ sret.op = "stop"
    /\ sret.how = "rejected"
    /\ ~is_running[sret.cap]
    /\ instances # <<>>
    /\ \E i \in 1..Len(instances) : instances[i].cap = sret.cap

\* The step ends a stop() call that got past the running check: it returns
\* without suspending, or it is resumed by the end of disconnect().
StopReturns(c) ==
    /\ sret'.op = "stop"
    /\ sret'.cap = c
    /\ sret'.how \in {"returned", "raised"}

\* C24: when stop() on a running capability returns, the capability is not
\* running and its resources are released: the provider it held is
\* disconnected (the capture session stopped) and dropped, the orchestrator
\* of the analysis service is dropped, and the buffer of the audio service
\* holds no samples.
C24_StopReleasesResources ==
    [][\A c \in Capabilities :
          StopReturns(c) =>
              /\ ~is_running'[c]
              /\ client'[c] = NoInstance
              /\ sret'.inst # NoInstance => ~instances'[sret'.inst].connected
              /\ c = "analysis" => suggestion_generator' = NoInstance
              /\ c = "audio" => buffer' = <<>>]_vars

\* C27: while the analysis capability is not running, add_conversation_turn
\* leaves the history and the speaker as they were, generate_suggestion
\* called then returns None without a model call, and neither raises nor
\* changes the running state of a capability.
C27_StoppedAnalysisIsInert ==
    [][(~is_running["analysis"] /\ sret'.who = "analysis")
        => /\ sret'.how = "returned"
           /\ is_running' = is_running
           /\ chat_calls' = chat_calls
           /\ (sret'.op = "add_conversation_turn"
                 => /\ conversation_history' = conversation_history
                    /\ current_speaker' = current_speaker)
           /\ (sret'.op = "generate_suggestion" /\ gs.pc # "chat"
                 => /\ suggestion' = ReturnedNone
                    /\ gs'.pc = "done")]_vars

\* C27 witness: the service was started, recorded a turn and was stopped,
\* and a suggestion asked of it then came back as None.
C27_Witness ==
    /\ ~is_running["analysis"]
    /\ conversation_history # <<>>
    /\ sret.who = "analysis"
    /\ sret.op = "generate_suggestion"
    /\ suggestion = ReturnedNone

\* C25: the pipeline loop never waits for the suggestion model call: while
\* a model call is pending, the loop is not held at the call, so that a
\* later result the provider has ready is consumed and broadcast without
\* the model call having returned.
C25_LoopNeverWaitsForModelCall ==
    ~(gs.pc = "chat" /\ pipe.pc = "suggest" /\ stream.ready # <<>>)

\* C28: when the transcription provider raises while the loop streams its
\* results, the loop ends without raising and an error event has been
\* broadcast once the loop has returned.
C28_ProviderFailureIsReported ==
    (pipe.pc = "returned" /\ stream.state = "raised")
        => \E i \in 1..Len(events) : events[i].type = "error"

\* C26: a message of an unknown type, or a command with an unknown action,
\* gets its sender an error event; the sender stays registered, its handler
\* goes back to waiting for messages, and no capability changes its
\* running state.
C26_UnknownMessageReported ==
    [][\A w \in Clients :
          (hpos'[w].handled = hpos[w].handled + 1
             /\ hpos'[w].msg \in {"unknown_type", "unknown_action"})
          => /\ inbox'[w] = Append(inbox[w], "error")
             /\ active_connections' = active_connections
             /\ w \in Range(active_connections')
             /\ handler'[w] = "running"
             /\ hpos'[w].pc = "receive"
             /\ is_running' = is_running
             /\ call' = call]_vars

\* C26 witness: with services running after a start command, the client
\* sent a command with an unknown action, was told so, and its handler
\* waits for the next message with the client still registered.
C26_Witness ==
    /\ hpos["w1"].msg = "unknown_action"
    /\ hpos["w1"].handled = 2
    /\ hpos["w1"].pc = "receive"
    /\ inbox["w1"] = <<"info", "error">>
    /\ "w1" \in Range(active_connections)
    /\ \E c \in Capabilities : is_running[c]

\* C29: when a broadcast pass ends, every observer that was registered when
\* the pass began and is registered as it ends has had exactly one delivery
\* attempt of the pass, whatever was registered or unregistered while the
\* pass was suspended.
C29_PassUndisturbedByRegistryChanges ==
    [][\A t \in Tasks :
          (btask[t].pc = "send" /\ btask'[t].pc = "done")
          => \A w \in Range(btask'[t].at_start) \cap Range(active_connections) :
                Cardinality({i \in DOMAIN btask'[t].attempts :
                                btask'[t].attempts[i] = w}) = 1]_vars

\* C30: when start() calls on a capability overlap, at most one of them
\* succeeds: whenever a start() reports success, the capability has no more
\* than one provider instance that is connected.
C30_OverlappingStartsLeaveOneProvider ==
    [][(sret'.op = "start" /\ sret'.how = "returned" /\ sret'.result)
        => Cardinality({i \in DOMAIN instances' :
                           /\ instances'[i].cap = sret'.cap
                           /\ instances'[i].connected}) <= 1]_vars

\* The step recorded in r ended a start() of capability c that failed: the
\* factory or the constructor raised, or the provider reported failure.
StartFailed(r, c) ==
    /\ r.op = "start"
    /\ r.cap = c
    /\ r.how \in {"raised", "returned"}
    /\ ~r.result

\* C31: a start() that fails returns False, leaves the capability not
\* running, and the start() called next on the capability is not rejected
\* as already running.
C31_FailedStartCanBeRetried ==
    [][\A c \in Capabilities :
          /\ StartFailed(sret', c) => ~is_running'[c]
          /\ (StartFailed(sret, c) /\ Called("start", c))
                => sret'.how # "rejected"]_vars

\* C32: whenever _parse_response finds no object in the response, or finds
\* an object-like span that does not decode, it returns what line-scanning
\* the response extracts.
C32_FallbackOnEveryParseFailure ==
    (parse_out.op = "_parse_response" /\ NoDecodableObject(parse_in))
        => parse_out.result = extract_from_text(parse_in)

\* C33: after every add_turn the current speaker is the speaker of the
\* turn just added, the one returned and the last of the history; the
\* current speaker is unset initially and from clear() until the next
\* add_turn, and clear() leaves the history empty.
C33_CurrentSpeakerFollowsTurns ==
    /\ [][clock' = clock + 1
            => /\ current_speaker' = calls'[Len(calls')].turn.speaker
               /\ current_speaker' \in Speakers
               /\ conversation_history' # <<>>
               /\ current_speaker'
                    = conversation_history'[Len(conversation_history')].speaker
               /\ calls'[Len(calls')].given
                    => \E t \in Texts :
                          calls'[Len(calls')].turn
                            = [speaker |-> current_speaker', text |-> t,
                               timestamp |-> clock']]_vars
    /\ [](calls = <<>> => current_speaker = NoSpeaker /\ conversation_history = <<>>)

\* C33 witness: turns were added, the tracker was cleared, and a turn added
\* since without a speaker made 'other' the current speaker.
C33_Witness ==
    /\ clock > Len(calls)
    /\ Len(calls) = 1
    /\ ~calls[1].given
    /\ current_speaker = "other"
    /\ Len(conversation_history) = 1

\* The events of one type the loop has broadcast, by their place in `events`.
EventsOfType(type) == {i \in 1..Len(events) : events[i].type = type}

\* The transcription events of final results.
FinalEvents == {i \in EventsOfType("transcription") : events[i].is_final}

\* What holds of the loop whether the analysis service runs or not: one
\* transcription event per result taken, an analysis event only right after
\* the transcription event of a final result, a turn only for a final
\* result, a model call only after a turn, an analysis event only after a
\* turn.
PipelineOrder ==
    /\ Cardinality(EventsOfType("transcription")) = pipe.consumed
    /\ \A i \in EventsOfType("analysis") : i > 1 /\ (i - 1) \in FinalEvents
    /\ Len(calls) <= Cardinality(FinalEvents)
    /\ chat_calls <= Len(calls)
    /\ Cardinality(EventsOfType("analysis")) <= Len(calls)

AnalysisRuns == pipe.analysis = "service" /\ ~analysis_unavailable

C34_EndedByError ==
    /\ pipe.pc = "returned"
    /\ Len(calls) = 1
    /\ Cardinality(EventsOfType("analysis")) = 0
    /\ events[Len(events)].type = "error"

\* C35: in every reachable state of a buffer drained through stream_chunks,
\* under any interleaving of writes, clears and streamer steps, an unset
\* readiness signal means that the buffer holds fewer than chunk_size
\* samples.
C35_UnsetSignalMeansNoChunk == ~new_data_event => Len(buffer) < ChunkSize

\* A streamer found no chunk and reset the signal it had been woken by,
\* with samples left in the buffer and after chunks were yielded.
C35_Witness ==
    /\ ~new_data_event
    /\ ret.op = "read"
    /\ ret.none
    /\ buffer # <<>>
    /\ yielded # <<>>
    /\ \E s \in Streamers : pc[s] = "waiting"

\* No start() or stop() of capability c is suspended in its provider.
NoCallInProgress(c) == \A k \in Callers : call[k].pc = "idle" \/ call[k].cap # c

\* C36: the audio and the transcription service hold no provider instance
\* (capture is None, stt_client is None) whenever they are not running and
\* none of their calls is in progress, also after a start() that failed and
\* after a stop() that returned.
C36_StoppedHoldsNoProvider ==
    \A c \in {"audio", "transcription"} :
        (~is_running[c] /\ NoCallInProgress(c)) => client[c] = NoInstance

\* C37: update_llm_config never changes whether the analysis service is
\* running: neither the call itself, which stores the new values and may
\* create the restart task, nor the run of the restart task it created
\* changes is_running, so that a stopped service is still stopped once the
\* task has finished.
C37_UpdateLlmConfigKeepsRunningState ==
    [][pending_restart' # pending_restart =>
          is_running'["analysis"] = is_running["analysis"]]_vars

\* C38: every connection handler that has terminated has removed its
\* observer: once handle_websocket_connection is over, for any reason (the
\* client disconnected, a malformed message, an error while a command was
\* handled, an accept() that failed), its websocket is not in the registry.
C38_ReturnedHandlerIsUnregistered ==
    \A w \in Sockets : handler[w] = "returned" => w \notin Range(active_connections)

\* The handler of w1 was registered, handled a message and then ended on a
\* malformed one.
C38_Witness ==
    /\ handler["w1"] = "returned"
    /\ hpos["w1"].msg = "malformed"
    /\ hpos["w1"].handled = 2
    /\ mret.op = "send_personal_message"
    /\ "w1" \notin Range(active_connections)

\* The step belongs to a call of generate_suggestion: the call begins, or
\* it is resumed by the model call and returns.
GenerateStep ==
    \/ <<gs, chat_calls, response, suggestion>>' # <<gs, chat_calls, response, suggestion>>
    \/ context'.called /\ context' # context

\* C39: generate_suggestion does not modify the turn tracker: no step of a
\* call changes the conversation history or the current speaker, whether
\* the model call succeeds, raises or is skipped; a turn added while the
\* model call is pending is appended as at any other time and is there when
\* the call returns.
C39_GenerateSuggestionKeepsTracker ==
    [][/\ GenerateStep =>
            /\ conversation_history' = conversation_history
            /\ current_speaker' = current_speaker
            /\ calls' = calls
       /\ (gs.pc = "chat" /\ clock' = clock + 1) =>
            /\ gs' = gs
            /\ Len(calls') = Len(calls) + 1
            /\ conversation_history' # <<>>
            /\ conversation_history'[Len(conversation_history')]
                 = calls'[Len(calls')].turn]_vars

\* A call has returned after its model call, and the history holds the turn
\* the context was built from and a turn added while the model call was
\* pending.
C39_Witness ==
    /\ gs.pc = "done"
    /\ response.called
    /\ Len(calls) = 2
    /\ Len(conversation_history) = 2
    /\ gs.context = join_lines(<<context_line(calls[1].turn)>>)

\* C40: stopping and starting the analysis service, the restart a change of
\* provider triggers included, preserves the conversation history and the
\* current speaker; only the model client and the orchestrator are
\* replaced: a start that succeeds installs a new instance of each and a
\* stop that succeeds removes them.
C40_RestartKeepsConversation ==
    [][(sret'.op \in {"start", "stop"} /\ sret'.cap = "analysis") =>
          /\ conversation_history' = conversation_history
          /\ current_speaker' = current_speaker
          /\ calls' = calls
          /\ clock' = clock
          /\ config' = config
          /\ (sret'.op = "start" /\ sret'.result) =>
                /\ Len(instances') = Len(instances) + 1
                /\ client'["analysis"] = Len(instances')
                /\ suggestion_generator' = Len(instances')
          /\ (sret'.op = "stop" /\ sret'.result) =>
                /\ client'["analysis"] = NoInstance
                /\ suggestion_generator' = NoInstance]_vars

\* The restart task has replaced the client and the orchestrator of a
\* service that holds a turn.
C40_Witness ==
    /\ sret.who = RestartTask
    /\ sret.result
    /\ is_running["analysis"]
    /\ Len(instances) = 2
    /\ client["analysis"] = 2
    /\ Len(conversation_history) = 1
    /\ current_speaker # NoSpeaker

====
